---- MODULE Spec2Model ----
(***************************************************************************)
(* The actor runtime of actor-framework: a ResourceActor (the Worker) that *)
(* owns a bounded mpsc mailbox and a HashMap store, the ResourceClient     *)
(* calls that feed it, and the entities whose hooks run inside its loop.   *)
(*                                                                         *)
(* Each Worker step is one await-free stretch of ResourceActor::run:       *)
(* `Recv` is `self.receiver.recv().await` returning Some(msg), and the     *)
(* Handle* actions are the match arm for that message, from the hook call  *)
(* to `respond_to.send`.  A hook may suspend, so other tasks (the callers) *)
(* can run between the two.                                                *)
(***************************************************************************)
EXTENDS Integers, Sequences, FiniteSets, TLC

\* ---------------------------------------------------------------- bounds
NumCallers == 2            \* concurrent caller tasks, each with a Client clone
MaxCalls == 2              \* calls the caller tasks make in all
MaxId == 2                 \* Ids a caller may name in a request
NumReservers == 3          \* N of the "N reserve-1 calls on stock N" scenario
Capacity == 2              \* buffer_size handed to mpsc::channel
MaxExpect == 2             \* expectations a test pushes on its MockClient

Workers == {"res", "product", "mock", "order", "user"}
Callers == 1 .. (IF NumCallers > NumReservers THEN NumCallers ELSE NumReservers)
CallIds == 1 .. (IF 3 * MaxCalls > 3 * (Capacity + 1)
                   THEN (IF 3 * MaxCalls > NumReservers THEN 3 * MaxCalls
                         ELSE NumReservers)
                 ELSE (IF 3 * (Capacity + 1) > NumReservers
                         THEN 3 * (Capacity + 1) ELSE NumReservers))
IdSpace == 1 .. MaxId
Vals == {0, 1}             \* the field values of the abstract entity

VARIABLES
    sys,        \* the Workers this configuration constructed
    phase,      \* phase[w]: "Created" | "Running" | "Stopped" | "Dropped"
    store,      \* store[w]: the HashMap<Id, T>, a function on the stored Ids
    next_id,    \* next_id[w]: the u32 counter
    mailbox,    \* mailbox[w]: the mpsc buffer, a sequence of requests
    cur,        \* cur[w]: the request the loop body is handling, or NoMsg
    holds,      \* holds[c]: the Workers whose Client clone caller c owns
    waiting,    \* waiting[c]: the call caller c awaits, 0 when none
    result,     \* result[c]: what caller c's last finished call returned
    slot,       \* slot[k]: the oneshot channel of call k, Free once gone
    nCalls,     \* calls enqueued so far; call k is the k-th enqueued
    issued,     \* history: issued[w], the Ids next_id has handed out, in order
    inserted,   \* history: inserted[w], every Id ever inserted in the store
    fresh,      \* history: fresh[w][i], entity i as its Create stored it,
                \*          kept while no Update, Delete or Action named i
    taken,      \* history: taken[w], how many requests recv() has handed out
    handled,    \* history: handled[w], the calls whose handling has finished
    closedWith, \* history: closedWith[w], the requests not yet handled when
                \*          the last Client clone of w was dropped, -1 before
    last,       \* history: last[w], what the latest finished handling did
                \*          and whether its reply send found the receiver
    sending,    \* sending[c]: the request of caller c suspended in
                \*          `sender.send(..).await` on a full buffer, or NoMsg
    exps,       \* the VecDeque of expectations of the MockClient
    verdict,    \* how the latest MockClient::verify ended: "none" before
                \*          any, then "ok" or "panic"
    scripted,   \* history: every expectation pushed, in order
    reserved,   \* history: the sum of the amounts of the ReserveStock
                \*          Actions the Product Worker answered with Ok
    method      \* method[c]: the ProductClient method caller c is in,
                \*          "none" outside one

vars == <<sys, phase, store, next_id, mailbox, cur, holds, waiting,
          result, slot, nCalls, issued, inserted, fresh, taken, handled,
          closedWith, last, sending, exps, verdict, scripted,
          reserved, method>>

\* ----------------------------------------------------------------- values
NoMsg == [kind |-> "None"]
NoLast == [kind |-> "None"]
Empty == [i \in {} |-> 0]                \* HashMap::new()

Free == [tag |-> "Free"]                 \* no oneshot channel
Pending == [tag |-> "Pending"]           \* both halves alive, nothing sent
RxDropped == [tag |-> "RxDropped"]       \* the caller dropped the receiver
TxDropped == [tag |-> "TxDropped"]       \* the sender was dropped unused
NoResult == [tag |-> "None"]

Ok(v) == [tag |-> "Ok", val |-> v]
EntityError == [tag |-> "Err", err |-> "EntityError"]
NotFound(s) == [tag |-> "Err", err |-> "NotFound", msg |-> s]
ActorClosed == [tag |-> "Err", err |-> "ActorClosed"]
ActorDropped == [tag |-> "Err", err |-> "ActorDropped"]
Some(e) == [some |-> TRUE, item |-> e]
None == [some |-> FALSE]

IsValue(s) == s.tag \in {"Ok", "Err"}

\* Display of an Id: the u32 counter of the generic entity prints in decimal,
\* ProductId(n) prints as "product_n".
IdToString(w, id) ==
    IF w = "product" THEN "product_" \o ToString(id) ELSE ToString(id)

\* HashMap operations
Insert(m, k, v) == [i \in (DOMAIN m) \cup {k} |-> IF i = k THEN v ELSE m[i]]
Remove(m, k) == [i \in (DOMAIN m) \ {k} |-> m[i]]
GetClonedOrDefault(m, k) ==
    IF k \in DOMAIN m THEN Some(m[k]) ELSE Some([id |-> k, val |-> 0])
GetCloned(m, k) == IF k \in DOMAIN m THEN Some(m[k]) ELSE None

\* --------------------------------------------------------------- entities
\* The generic Worker "res" manages an entity of which the runtime knows only
\* the ActorEntity contract: a hook may write the entity it is handed and
\* may return Ok or Err, in any combination.  An outcome records what the
\* hook returned (ok) and the entity as the hook left it (item).

\* T::from_create_params(id, params)
FromCreateParams(w, id, params) ==
    IF w = "product"
      THEN {[ok |-> TRUE,
             item |-> [id |-> id, name |-> params.name, price |-> params.price,
                       quantity |-> params.quantity]]}
      ELSE {[ok |-> TRUE, item |-> [id |-> id, val |-> params]],
            [ok |-> FALSE]}

\* item.on_create(&context): Product keeps the default, which is Ok(()).
OnCreate(w, item) ==
    IF w = "product"
      THEN {[ok |-> TRUE, item |-> item]}
      ELSE {[ok |-> b, item |-> [item EXCEPT !.val = v]] :
                b \in BOOLEAN, v \in Vals}

\* Product::on_update
ProductOnUpdate(item, update) ==
    LET a == IF update.price.some
               THEN [item EXCEPT !.price = update.price.item] ELSE item
        b == IF update.quantity.some
               THEN [a EXCEPT !.quantity = update.quantity.item] ELSE a
    IN  [ok |-> TRUE, item |-> b]

\* item.on_update(update, &context)
OnUpdate(w, item, update) ==
    IF w = "product"
      THEN {ProductOnUpdate(item, update)}
      ELSE {[ok |-> b, item |-> it] :
                b \in BOOLEAN, it \in {item, [item EXCEPT !.val = update]}}

\* item.on_delete(&context) takes &self: it cannot write the entity.
OnDelete(w, item) ==
    IF w = "product"
      THEN {[ok |-> TRUE, item |-> item]}
      ELSE {[ok |-> b, item |-> item] : b \in BOOLEAN}

CheckStock == [op |-> "CheckStock"]
ReserveStock(n) == [op |-> "ReserveStock", n |-> n]

ProductHandleActionStrict(item, action) ==
    IF action.op = "CheckStock"
      THEN [ok |-> TRUE, item |-> item,
            res |-> [op |-> "CheckStock", level |-> item.quantity]]
      ELSE IF item.quantity > action.n
             THEN [ok |-> TRUE,
                   item |-> [item EXCEPT
                               !.quantity = item.quantity - action.n],
                   res |-> [op |-> "ReserveStock"]]
             ELSE [ok |-> FALSE, item |-> item]

ProductHandleActionTakeRest(item, action) ==
    IF action.op = "CheckStock"
      THEN [ok |-> TRUE, item |-> item,
            res |-> [op |-> "CheckStock", level |-> item.quantity]]
      ELSE IF item.quantity >= action.n
             THEN [ok |-> TRUE,
                   item |-> [item EXCEPT
                               !.quantity = item.quantity - action.n],
                   res |-> [op |-> "ReserveStock"]]
             ELSE [ok |-> FALSE, item |-> [item EXCEPT !.quantity = 0]]

ProductHandleActionPeekTakes(item, action) ==
    IF action.op = "CheckStock"
      THEN [ok |-> TRUE,
            item |-> [item EXCEPT
                        !.quantity = IF @ > 0 THEN @ - 1 ELSE @],
            res |-> [op |-> "CheckStock", level |-> item.quantity]]
      ELSE IF item.quantity >= action.n
             THEN [ok |-> TRUE,
                   item |-> [item EXCEPT
                               !.quantity = item.quantity - action.n],
                   res |-> [op |-> "ReserveStock"]]
             ELSE [ok |-> FALSE, item |-> item]

\* Product::handle_action.  quantity is a u32; the subtraction is written
\* over the integers, so an underflow would show as a negative quantity.
ProductHandleAction(item, action) ==
    IF action.op = "CheckStock"
      THEN [ok |-> TRUE, item |-> item,
            res |-> [op |-> "CheckStock", level |-> item.quantity]]
      ELSE IF item.quantity >= action.n
             THEN [ok |-> TRUE,
                   item |-> [item EXCEPT
                               !.quantity = item.quantity - action.n],
                   res |-> [op |-> "ReserveStock"]]
             ELSE [ok |-> FALSE, item |-> item]

\* item.handle_action(action, &context)
HandleActionOutcomes(w, item, action) ==
    IF w = "product"
      THEN {ProductHandleAction(item, action)}
      ELSE {[ok |-> b, item |-> it, res |-> action] :
                b \in BOOLEAN, it \in {item, [item EXCEPT !.val = action]}}

\* ------------------------------------------------------------------ state
\* ResourceActor::new: an empty store, the counter at 1, an empty channel.
\* Each of the first n caller tasks starts with a clone of the Client of
\* each Worker.
InitOf(ws, n) ==
    /\ sys = ws
    /\ phase = [w \in Workers |-> "Created"]
    /\ store = [w \in Workers |-> Empty]
    /\ next_id = [w \in Workers |-> 1]
    /\ mailbox = [w \in Workers |-> <<>>]
    /\ cur = [w \in Workers |-> NoMsg]
    /\ holds = [c \in Callers |-> IF c <= n THEN ws ELSE {}]
    /\ waiting = [c \in Callers |-> 0]
    /\ result = [c \in Callers |-> NoResult]
    /\ slot = [k \in CallIds |-> Free]
    /\ nCalls = 0
    /\ issued = [w \in Workers |-> <<>>]
    /\ inserted = [w \in Workers |-> {}]
    /\ fresh = [w \in Workers |-> Empty]
    /\ taken = [w \in Workers |-> 0]
    /\ handled = [w \in Workers |-> <<>>]
    /\ closedWith = [w \in Workers |-> -1]
    /\ last = [w \in Workers |-> NoLast]
    /\ sending = [c \in Callers |-> NoMsg]
    /\ exps = <<>>
    /\ verdict = "none"
    /\ scripted = <<>>
    /\ reserved = 0
    /\ method = [c \in Callers |-> "none"]

Init == InitOf({"res"}, NumCallers)

\* The requests a caller of the generic Worker may build.
Requests ==
    {[kind |-> "Create", id |-> 0, arg |-> p] : p \in Vals}
    \cup {[kind |-> "Get", id |-> i, arg |-> 0] : i \in IdSpace}
    \cup {[kind |-> "Update", id |-> i, arg |-> u] : i \in IdSpace, u \in Vals}
    \cup {[kind |-> "Delete", id |-> i, arg |-> 0] : i \in IdSpace}
    \cup {[kind |-> "Action", id |-> i, arg |-> a] : i \in IdSpace, a \in Vals}

\* ----------------------------------------------------------------- Client
\* The receiver half of the mpsc channel is a field of the actor: it lives
\* until run() returns or the actor is dropped.
ReceiverAlive(w) == phase[w] \in {"Created", "Running"}

\* The Client clones in the Context a Worker's run() owns: the Order actor
\* is given a UserClient and a ProductClient.
ContextClients(v) == IF v = "order" THEN {"user", "product"} ELSE {}

SenderCountCallers(w) == Cardinality({c \in Callers : w \in holds[c]})

\* Sender clones of the channel of w that are still alive: those of the
\* callers, and those in the Context of a Worker whose task has not ended.
SenderCount(w) ==
    Cardinality({c \in Callers : w \in holds[c]})
    + Cardinality({v \in sys : /\ w \in ContextClients(v)
                               /\ phase[v] \in {"Created", "Running"}})

\* The callers suspended in a send to w.
Suspended(w) == {c \in Callers : sending[c] # NoMsg /\ sending[c].to = w}

\* ResourceClient::{create,get,update,delete,perform_action} up to the end of
\* `self.sender.send(..).await`: a fresh oneshot channel, and the request at
\* the back of the buffer when the buffer has room and no earlier sender is
\* queued for it.
Send(c, w, req) ==
    /\ w \in holds[c]
    /\ waiting[c] = 0
    /\ sending[c] = NoMsg
    /\ Suspended(w) = {}
    /\ ReceiverAlive(w)
    /\ Len(mailbox[w]) < Capacity
    /\ nCalls' = nCalls + 1
    /\ mailbox' = [mailbox EXCEPT
                     ![w] = Append(@, [kind |-> req.kind, id |-> req.id,
                                       arg |-> req.arg, call |-> nCalls + 1])]
    /\ slot' = [slot EXCEPT ![nCalls + 1] = Pending]
    /\ waiting' = [waiting EXCEPT ![c] = nCalls + 1]
    /\ UNCHANGED <<sending, exps, verdict, scripted, reserved, method>>
    /\ UNCHANGED <<sys, phase, store, next_id, cur, holds, result,
                   issued, inserted, fresh, taken, handled, closedWith, last>>

SendFailWhenFull(c, w, req) ==
    /\ w \in holds[c]
    /\ waiting[c] = 0
    /\ sending[c] = NoMsg
    /\ ReceiverAlive(w)
    /\ Len(mailbox[w]) >= Capacity \/ Suspended(w) # {}
    /\ result' = [result EXCEPT ![c] = ActorClosed]
    /\ UNCHANGED <<sys, phase, store, next_id, mailbox, cur, holds, waiting,
                   slot, nCalls, issued, inserted, fresh, taken, handled,
                   closedWith, last, sending, exps, verdict, scripted,
                   reserved, method>>

\* The same calls when the buffer is full, or earlier senders are queued for
\* it: `self.sender.send(..).await` suspends with the request in hand.
SuspendSend(c, w, req) ==
    /\ w \in holds[c]
    /\ waiting[c] = 0
    /\ sending[c] = NoMsg
    /\ ReceiverAlive(w)
    /\ Len(mailbox[w]) >= Capacity \/ Suspended(w) # {}
    /\ sending' = [sending EXCEPT
                     ![c] = [kind |-> req.kind, id |-> req.id,
                             arg |-> req.arg, to |-> w]]
    /\ UNCHANGED <<sys, phase, store, next_id, mailbox, cur, holds, waiting,
                   result, slot, nCalls, issued, inserted, fresh, taken,
                   handled, closedWith, last, exps, verdict, scripted,
                   reserved, method>>

\* The buffer has room again and a suspended send completes: the request
\* goes to the back of the buffer and the caller on to `response.await`.
\* (tokio serves the queued senders in their order of arrival; any of them
\* may be the one here.)
ResumeSend(c) ==
    /\ sending[c] # NoMsg
    /\ ReceiverAlive(sending[c].to)
    /\ Len(mailbox[sending[c].to]) < Capacity
    /\ nCalls' = nCalls + 1
    /\ mailbox' = [mailbox EXCEPT
                     ![sending[c].to] =
                        Append(@, [kind |-> sending[c].kind,
                                   id |-> sending[c].id,
                                   arg |-> sending[c].arg,
                                   call |-> nCalls + 1])]
    /\ slot' = [slot EXCEPT ![nCalls + 1] = Pending]
    /\ waiting' = [waiting EXCEPT ![c] = nCalls + 1]
    /\ sending' = [sending EXCEPT ![c] = NoMsg]
    /\ UNCHANGED <<sys, phase, store, next_id, cur, holds, result,
                   issued, inserted, fresh, taken, handled, closedWith, last,
                   exps, verdict, scripted, reserved, method>>

SendClosedAndWait(c, w, req) ==
    /\ w \in holds[c]
    /\ waiting[c] = 0
    /\ ~ReceiverAlive(w)
    /\ nCalls < Cardinality(CallIds)
    /\ nCalls' = nCalls + 1
    /\ slot' = [slot EXCEPT ![nCalls + 1] = Pending]
    /\ waiting' = [waiting EXCEPT ![c] = nCalls + 1]
    /\ UNCHANGED <<sending, exps, verdict, scripted, reserved, method>>
    /\ UNCHANGED <<sys, phase, store, next_id, mailbox, cur, holds, result,
                   issued, inserted, fresh, taken, handled, closedWith, last>>

\* The same calls when the receiver is gone: `self.sender.send(..).await` is
\* an Err, `map_err(|_| FrameworkError::ActorClosed)?` returns it, and the
\* request goes with the SendError, its oneshot sender inside; `response`
\* is dropped unawaited.
SendClosed(c, w, req) ==
    /\ w \in holds[c]
    /\ waiting[c] = 0
    /\ ~ReceiverAlive(w)
    /\ result' = [result EXCEPT ![c] = ActorClosed]
    /\ UNCHANGED <<sending, exps, verdict, scripted, reserved, method>>
    /\ UNCHANGED <<sys, phase, store, next_id, mailbox, cur, holds, waiting,
                   slot, nCalls, issued, inserted, fresh, taken, handled,
                   closedWith, last>>

\* A caller task of the generic Worker starts a call.
Call(c) ==
    /\ nCalls < MaxCalls
    /\ \E w \in sys, req \in Requests : Send(c, w, req)

AwaitValueOnly(c) ==
    /\ waiting[c] # 0
    /\ IsValue(slot[waiting[c]])
    /\ waiting' = [waiting EXCEPT ![c] = 0]
    /\ slot' = [slot EXCEPT ![waiting[c]] = Free]
    /\ result' = [result EXCEPT ![c] = slot[waiting[c]]]
    /\ UNCHANGED <<sending, exps, verdict, scripted, reserved, method>>
    /\ UNCHANGED <<sys, phase, store, next_id, mailbox, cur, holds,
                   nCalls, issued, inserted, fresh, taken, handled,
                   closedWith, last>>

\* `response.await.map_err(|_| FrameworkError::ActorDropped)?`: the oneshot
\* receiver resolves once a value was sent or the sender was dropped.
Await(c) ==
    /\ waiting[c] # 0
    /\ slot[waiting[c]].tag \in {"Ok", "Err", "TxDropped"}
    /\ waiting' = [waiting EXCEPT ![c] = 0]
    /\ slot' = [slot EXCEPT ![waiting[c]] = Free]
    /\ result' = [result EXCEPT
                    ![c] = IF IsValue(slot[waiting[c]])
                             THEN slot[waiting[c]] ELSE ActorDropped]
    /\ UNCHANGED <<sending, exps, verdict, scripted, reserved, method>>
    /\ UNCHANGED <<sys, phase, store, next_id, mailbox, cur, holds,
                   nCalls, issued, inserted, fresh, taken, handled,
                   closedWith, last>>

\* The caller drops the future of its in-flight call, and with it the
\* oneshot receiver; a value already in the channel goes with it.
Abandon(c) ==
    /\ waiting[c] # 0
    /\ slot' = [slot EXCEPT ![waiting[c]] = IF @ = Pending THEN RxDropped
                                             ELSE Free]
    /\ waiting' = [waiting EXCEPT ![c] = 0]
    /\ UNCHANGED <<sending, exps, verdict, scripted, reserved, method>>
    /\ UNCHANGED <<sys, phase, store, next_id, mailbox, cur, holds,
                   result, nCalls, issued, inserted, fresh, taken, handled,
                   closedWith, last>>

\* The caller drops its Client clone; a call borrows the Client, so none is
\* in flight.
DropClient(c) ==
    /\ waiting[c] = 0
    /\ \E w \in holds[c] :
          /\ holds' = [holds EXCEPT ![c] = @ \ {w}]
          /\ closedWith' = [closedWith EXCEPT
                              ![w] = IF SenderCount(w) = 1
                                       THEN Len(mailbox[w])
                                            + (IF cur[w] = NoMsg THEN 0 ELSE 1)
                                       ELSE @]
    /\ UNCHANGED <<sending, exps, verdict, scripted, reserved, method>>
    /\ UNCHANGED <<sys, phase, store, next_id, mailbox, cur, waiting,
                   result, slot, nCalls, issued, inserted, fresh, taken,
                   handled,
                   last>>

\* ----------------------------------------------------------------- Worker
\* tokio::spawn(actor.run(context))
Run(w) ==
    /\ phase[w] = "Created"
    /\ phase' = [phase EXCEPT ![w] = "Running"]
    /\ UNCHANGED <<sending, exps, verdict, scripted, reserved, method>>
    /\ UNCHANGED <<sys, store, next_id, mailbox, cur, holds, waiting,
                   result, slot, nCalls, issued, inserted, fresh, taken,
                   handled,
                   closedWith, last>>

AtRecvWhileHandling(w) == phase[w] = "Running"

\* The loop is back at `self.receiver.recv().await`: the body of the
\* previous iteration has run to its end.
AtRecv(w) == phase[w] = "Running" /\ cur[w] = NoMsg

RecvNewest(q) == q[Len(q)]

\* mpsc::Receiver::recv hands out the oldest buffered message.
RecvMsg(q) == Head(q)
RecvRest(q) == Tail(q)

\* `while let Some(msg) = self.receiver.recv().await`
Recv(w) ==
    /\ AtRecv(w)
    /\ mailbox[w] # <<>>
    /\ cur' = [cur EXCEPT ![w] = RecvMsg(mailbox[w])]
    /\ mailbox' = [mailbox EXCEPT ![w] = RecvRest(@)]
    /\ taken' = [taken EXCEPT ![w] = @ + 1]
    /\ UNCHANGED <<sending, exps, verdict, scripted, reserved, method>>
    /\ UNCHANGED <<sys, phase, store, next_id, holds, waiting, result,
                   slot, nCalls, issued, inserted, fresh, handled,
                   closedWith, last>>

ChannelClosedEarly(w) == SenderCount(w) = 0

\* recv() returns None only when every sender is gone and the buffer is
\* empty.
ChannelClosed(w) == SenderCount(w) = 0 /\ mailbox[w] = <<>>

\* recv() returned None: the loop ends and run() returns.
Stop(w) ==
    /\ AtRecv(w)
    /\ ChannelClosed(w)
    /\ phase' = [phase EXCEPT ![w] = "Stopped"]
    /\ UNCHANGED <<sending, exps, verdict, scripted, reserved, method>>
    /\ UNCHANGED <<sys, store, next_id, mailbox, cur, holds, waiting,
                   result, slot, nCalls, issued, inserted, fresh, taken,
                   handled,
                   closedWith, last>>

\* The task of the Worker ends without run() returning: the actor is dropped
\* before it is spawned, or the task is cancelled or unwinds at one of its
\* await points (recv, or the hook of the request in handling).  The
\* receiver goes, and with it the buffered requests, the request in
\* handling and the oneshot senders they carry; the store goes too.
Crash(w) ==
    /\ ReceiverAlive(w)
    /\ phase' = [phase EXCEPT ![w] = "Dropped"]
    /\ mailbox' = [mailbox EXCEPT ![w] = <<>>]
    /\ cur' = [cur EXCEPT ![w] = NoMsg]
    /\ store' = [store EXCEPT ![w] = Empty]
    /\ slot' = [k \in CallIds |->
                  IF \/ \E i \in 1 .. Len(mailbox[w]) : mailbox[w][i].call = k
                     \/ (cur[w] # NoMsg /\ cur[w].call = k)
                    THEN (IF slot[k] = Pending THEN TxDropped ELSE Free)
                    ELSE slot[k]]
    /\ UNCHANGED <<sending, exps, verdict, scripted, reserved, method>>
    /\ UNCHANGED <<sys, next_id, holds, waiting, result, nCalls, issued,
                   inserted, fresh, taken, handled, closedWith, last>>

RespondOnOk(k, v) ==
    [slot EXCEPT ![k] = IF @ = Pending /\ v.tag = "Ok" THEN v
                        ELSE IF @ = Pending THEN TxDropped ELSE Free]

RespondNever(k, v) == slot

RespondAllPending(k, v) ==
    [j \in CallIds |-> IF slot[j] = Pending THEN v
                       ELSE IF j = k THEN Free ELSE slot[j]]

\* `let _ = respond_to.send(v)`: the value lands in the oneshot channel
\* unless its receiver is gone; then the send fails, its outcome is ignored
\* and the channel, both halves dropped, is freed.
Respond(k, v) == [slot EXCEPT ![k] = IF @ = Pending THEN v ELSE Free]

FinishSkipOrphaned(w, st, id, hook, rep) ==
    /\ store' = [store EXCEPT
                   ![w] = IF slot[cur[w].call] = Pending THEN st ELSE @]
    /\ slot' = Respond(cur[w].call, rep)
    /\ cur' = [cur EXCEPT ![w] = NoMsg]
    /\ handled' = [handled EXCEPT ![w] = Append(@, cur[w].call)]
    /\ last' = [last EXCEPT
                  ![w] = [kind |-> cur[w].kind, id |-> id,
                          pre |-> GetCloned(store[w], id),
                          hook |-> hook, reply |-> rep,
                          sent |-> slot[cur[w].call] = Pending]]
    /\ UNCHANGED <<sending, exps, verdict, scripted, reserved, method>>
    /\ UNCHANGED <<sys, phase, mailbox, holds, waiting, result, nCalls,
                   taken, closedWith>>

FinishOrBreak(w, st, id, hook, rep) ==
    /\ store' = [store EXCEPT ![w] = st]
    /\ slot' = Respond(cur[w].call, rep)
    /\ cur' = [cur EXCEPT ![w] = NoMsg]
    /\ handled' = [handled EXCEPT ![w] = Append(@, cur[w].call)]
    /\ last' = [last EXCEPT
                  ![w] = [kind |-> cur[w].kind, id |-> id,
                          pre |-> GetCloned(store[w], id),
                          hook |-> hook, reply |-> rep,
                          sent |-> slot[cur[w].call] = Pending]]
    /\ phase' = [phase EXCEPT
                   ![w] = IF rep = EntityError THEN "Stopped" ELSE @]
    /\ UNCHANGED <<sending, exps, verdict, scripted, reserved, method>>
    /\ UNCHANGED <<sys, mailbox, holds, waiting, result, nCalls,
                   taken, closedWith>>

\* What a finished handling adds to the stock taken by reservations: the
\* amount of a ReserveStock Action the Product answered with Ok.
ReservedBy(w, msg, rep) ==
    IF w = "product" /\ msg.kind = "Action" /\ rep.tag = "Ok"
      THEN IF msg.arg.op = "ReserveStock" THEN msg.arg.n ELSE 0
      ELSE 0

\* The end of a match arm: the store as the arm left it, the reply sent.
Finish(w, st, id, hook, rep) ==
    /\ store' = [store EXCEPT ![w] = st]
    /\ slot' = Respond(cur[w].call, rep)
    /\ cur' = [cur EXCEPT ![w] = NoMsg]
    /\ handled' = [handled EXCEPT ![w] = Append(@, cur[w].call)]
    /\ last' = [last EXCEPT
                  ![w] = [kind |-> cur[w].kind, id |-> id,
                          pre |-> GetCloned(store[w], id),
                          hook |-> hook, reply |-> rep,
                          sent |-> slot[cur[w].call] = Pending]]
    /\ reserved' = reserved + ReservedBy(w, cur[w], rep)
    /\ UNCHANGED <<sending, exps, verdict, scripted, method>>
    /\ UNCHANGED <<sys, phase, mailbox, holds, waiting, result, nCalls,
                   taken, closedWith>>

NextIdStuck(n) == n

NextIdByTwo(n) == n + 2

\* `self.next_id += 1`.  The counter is a u32; the runs here stay far below
\* 2^32, where the addition would overflow.
NextId(n) == n + 1

\* from_create_params followed, when it is Ok, by on_create
CreateOutcomes(w, id, params) ==
    {[ok |-> FALSE, hook |-> "construct"] :
        c \in {x \in FromCreateParams(w, id, params) : ~x.ok}}
    \cup UNION {{[ok |-> h.ok, hook |-> IF h.ok THEN "ok" ELSE "err",
                  built |-> c.item, item |-> h.item] :
                    h \in OnCreate(w, c.item)} :
                c \in {x \in FromCreateParams(w, id, params) : x.ok}}

CreateStoreBeforeHookResult(st, id, o) ==
    IF "item" \in DOMAIN o THEN Insert(st, id, o.item) ELSE st

CreateStoreAsBuilt(st, id, o) == IF o.ok THEN Insert(st, id, o.built) ELSE st

\* `self.store.insert(id.clone(), item)`, reached only past both steps
CreateStore(st, id, o) == IF o.ok THEN Insert(st, id, o.item) ELSE st

CreateReply(id, o) == IF o.ok THEN Ok(id) ELSE EntityError

\* ResourceRequest::Create
HandleCreate(w) ==
    /\ cur[w].kind = "Create"
    /\ next_id' = [next_id EXCEPT ![w] = NextId(@)]
    /\ issued' = [issued EXCEPT ![w] = Append(@, next_id[w])]
    /\ \E o \in CreateOutcomes(w, next_id[w], cur[w].arg) :
          /\ inserted' = [inserted EXCEPT
                            ![w] = IF o.ok THEN @ \cup {next_id[w]} ELSE @]
          /\ fresh' = [fresh EXCEPT
                         ![w] = IF o.ok THEN Insert(@, next_id[w], o.item)
                                        ELSE @]
          /\ Finish(w, CreateStore(store[w], next_id[w], o), next_id[w],
                    o.hook, CreateReply(next_id[w], o))

GetStoreTake(st, id) == Remove(st, id)

\* `self.store.get(&id)` borrows the store; the entity is cloned out of it.
GetStore(st, id) == st

\* ResourceRequest::Get
HandleGet(w) ==
    /\ cur[w].kind = "Get"
    /\ Finish(w, GetStore(store[w], cur[w].id), cur[w].id, "none",
              Ok(GetCloned(store[w], cur[w].id)))
    /\ UNCHANGED <<next_id, issued, inserted, fresh>>

\* A hook that was not called, for the arms that found no entity.
NoHook == [ok |-> FALSE, none |-> TRUE]
HookTag(h) == IF "none" \in DOMAIN h THEN "none"
              ELSE IF h.ok THEN "ok" ELSE "err"

UpdateStoreDropOnErr(st, id, h) ==
    IF h.ok THEN [st EXCEPT ![id] = h.item] ELSE Remove(st, id)

\* `self.store.get_mut(&id)` hands the hook the stored entity itself.
UpdateStore(st, id, h) == [st EXCEPT ![id] = h.item]

UpdateReplyStale(st, id, h) == Ok(st[id])

\* `respond_to.send(Ok(item.clone()))`: item is the stored entity, as the
\* hook left it.
UpdateReply(st, id, h) == Ok(UpdateStore(st, id, h)[id])

\* ResourceRequest::Update
HandleUpdate(w) ==
    /\ cur[w].kind = "Update"
    /\ \E h \in (IF cur[w].id \in DOMAIN store[w]
                    THEN OnUpdate(w, store[w][cur[w].id], cur[w].arg)
                    ELSE {NoHook}) :
          Finish(w,
                 IF HookTag(h) = "none" THEN store[w]
                 ELSE UpdateStore(store[w], cur[w].id, h),
                 cur[w].id, HookTag(h),
                 IF HookTag(h) = "none"
                   THEN NotFound(IdToString(w, cur[w].id))
                 ELSE IF h.ok THEN UpdateReply(store[w], cur[w].id, h)
                 ELSE EntityError)
    /\ fresh' = [fresh EXCEPT ![w] = Remove(@, cur[w].id)]
    /\ UNCHANGED <<next_id, issued, inserted>>

DeleteStoreAlways(st, id, h) == Remove(st, id)

DeleteStoreKeep(st, id, h) == st

\* `self.store.remove(&id)`, reached only when on_delete returned Ok
DeleteStore(st, id, h) == IF h.ok THEN Remove(st, id) ELSE st

\* ResourceRequest::Delete
HandleDelete(w) ==
    /\ cur[w].kind = "Delete"
    /\ \E h \in (IF cur[w].id \in DOMAIN store[w]
                    THEN OnDelete(w, store[w][cur[w].id])
                    ELSE {NoHook}) :
          Finish(w,
                 IF HookTag(h) = "none" THEN store[w]
                 ELSE DeleteStore(store[w], cur[w].id, h),
                 cur[w].id, HookTag(h),
                 IF HookTag(h) = "none"
                   THEN NotFound(IdToString(w, cur[w].id))
                 ELSE IF h.ok THEN Ok(<<>>)
                 ELSE EntityError)
    /\ fresh' = [fresh EXCEPT ![w] = Remove(@, cur[w].id)]
    /\ UNCHANGED <<next_id, issued, inserted>>

ActionStoreDropOnErr(st, id, h) ==
    IF h.ok THEN [st EXCEPT ![id] = h.item] ELSE Remove(st, id)

ActionStoreAll(st, id, h) == [i \in DOMAIN st |-> h.item]

\* handle_action works on `self.store.get_mut(&id)` too.
ActionStore(st, id, h) == [st EXCEPT ![id] = h.item]

\* ResourceRequest::Action
HandleAction(w) ==
    /\ cur[w].kind = "Action"
    /\ \E h \in (IF cur[w].id \in DOMAIN store[w]
                    THEN HandleActionOutcomes(w, store[w][cur[w].id],
                                              cur[w].arg)
                    ELSE {NoHook}) :
          Finish(w,
                 IF HookTag(h) = "none" THEN store[w]
                 ELSE ActionStore(store[w], cur[w].id, h),
                 cur[w].id, HookTag(h),
                 IF HookTag(h) = "none"
                   THEN NotFound(IdToString(w, cur[w].id))
                 ELSE IF h.ok THEN Ok(h.res)
                 ELSE EntityError)
    /\ fresh' = [fresh EXCEPT ![w] = Remove(@, cur[w].id)]
    /\ UNCHANGED <<next_id, issued, inserted>>

\* ---------------------------------------------------------- specification
\* Callers that keep their Client and await every reply.
Next ==
    \/ \E c \in Callers : Call(c)
    \/ \E c \in Callers : Await(c)
    \/ \E w \in sys : Run(w)
    \/ \E w \in sys : Recv(w)
    \/ \E w \in sys : HandleCreate(w)
    \/ \E w \in sys : HandleGet(w)
    \/ \E w \in sys : HandleUpdate(w)
    \/ \E w \in sys : HandleDelete(w)
    \/ \E w \in sys : HandleAction(w)

Spec == Init /\ [][Next]_vars

\* test_framework_full_lifecycle once its Create is answered: the Worker is
\* running and stores entity 1 as built from the params, which on_create
\* left alone.
StoredEntity == [id |-> 1, val |-> 1]

InitStored ==
    /\ sys = {"res"}
    /\ phase = [w \in Workers |-> IF w = "res" THEN "Running" ELSE "Created"]
    /\ store = [w \in Workers |-> IF w = "res"
                                    THEN Insert(Empty, 1, StoredEntity)
                                    ELSE Empty]
    /\ fresh = [w \in Workers |-> IF w = "res"
                                    THEN Insert(Empty, 1, StoredEntity)
                                    ELSE Empty]
    /\ next_id = [w \in Workers |-> IF w = "res" THEN 2 ELSE 1]
    /\ mailbox = [w \in Workers |-> <<>>]
    /\ cur = [w \in Workers |-> NoMsg]
    /\ holds = [c \in Callers |-> IF c <= NumCallers THEN {"res"} ELSE {}]
    /\ waiting = [c \in Callers |-> 0]
    /\ result = [c \in Callers |-> NoResult]
    /\ slot = [k \in CallIds |-> Free]
    /\ nCalls = 0
    /\ issued = [w \in Workers |-> IF w = "res" THEN <<1>> ELSE <<>>]
    /\ inserted = [w \in Workers |-> IF w = "res" THEN {1} ELSE {}]
    /\ taken = [w \in Workers |-> 0]
    /\ handled = [w \in Workers |-> <<>>]
    /\ closedWith = [w \in Workers |-> -1]
    /\ last = [w \in Workers |-> NoLast]
    /\ sending = [c \in Callers |-> NoMsg]
    /\ exps = <<>>
    /\ verdict = "none"
    /\ scripted = <<>>
    /\ reserved = 0
    /\ method = [c \in Callers |-> "none"]

NextStored ==
    \/ \E c \in Callers : Call(c)
    \/ \E c \in Callers : Await(c)
    \/ \E w \in sys : Recv(w)
    \/ \E w \in sys : HandleCreate(w)
    \/ \E w \in sys : HandleGet(w)
    \/ \E w \in sys : HandleUpdate(w)
    \/ \E w \in sys : HandleDelete(w)
    \/ \E w \in sys : HandleAction(w)

SpecStored == InitStored /\ [][NextStored]_vars

\* Callers that may also abandon a call in flight and drop their Client,
\* down to the shutdown of the Worker.
DrainRequests == {r \in Requests : r.kind \in {"Create", "Get", "Delete"}}

CallDrain(c) ==
    /\ nCalls < MaxCalls
    /\ \E w \in sys, req \in DrainRequests : Send(c, w, req)

NextDrain ==
    \/ \E c \in Callers : CallDrain(c)
    \/ \E c \in Callers : Await(c)
    \/ \E c \in Callers : Abandon(c)
    \/ \E c \in Callers : DropClient(c)
    \/ \E w \in sys : Run(w)
    \/ \E w \in sys : Recv(w)
    \/ \E w \in sys : Stop(w)
    \/ \E w \in sys : HandleCreate(w)
    \/ \E w \in sys : HandleGet(w)
    \/ \E w \in sys : HandleDelete(w)

SpecDrain == Init /\ [][NextDrain]_vars

\* Callers of a Worker whose task may end at any time without run()
\* returning.
CrashRequests == {r \in Requests : r.kind \in {"Create", "Get"}}

CallCrash(c) ==
    /\ nCalls < MaxCalls
    /\ \E w \in sys, req \in CrashRequests : Send(c, w, req)

CallClosed(c) == \E w \in sys, req \in Requests : SendClosed(c, w, req)

NextCrash ==
    \/ \E c \in Callers : CallCrash(c)
    \/ \E c \in Callers : CallClosed(c)
    \/ \E c \in Callers : Await(c)
    \/ \E w \in sys : Run(w)
    \/ \E w \in sys : Recv(w)
    \/ \E w \in sys : Crash(w)
    \/ \E w \in sys : HandleCreate(w)
    \/ \E w \in sys : HandleGet(w)

SpecCrash == Init /\ [][NextCrash]_vars

\* The task of a caller is woken and polled again once its oneshot receiver
\* is ready.
SpecCrashFair == SpecCrash /\ \A c \in Callers : WF_waiting(Await(c))

\* One request of each kind, all naming the first Id.
LiveRequests ==
    {[kind |-> "Create", id |-> 0, arg |-> 1],
     [kind |-> "Get", id |-> 1, arg |-> 0],
     [kind |-> "Update", id |-> 1, arg |-> 0],
     [kind |-> "Delete", id |-> 1, arg |-> 0],
     [kind |-> "Action", id |-> 1, arg |-> 0]}

CallLive(c) ==
    /\ nCalls < MaxCalls
    /\ \E w \in sys, req \in LiveRequests : Send(c, w, req)

NextLive ==
    \/ \E c \in Callers : CallLive(c)
    \/ \E c \in Callers : Await(c)
    \/ \E w \in sys : Run(w)
    \/ \E w \in sys : Recv(w)
    \/ \E w \in sys : HandleCreate(w)
    \/ \E w \in sys : HandleGet(w)
    \/ \E w \in sys : HandleUpdate(w)
    \/ \E w \in sys : HandleDelete(w)
    \/ \E w \in sys : HandleAction(w)

\* The body of the loop of ResourceActor::run for the request in handling;
\* every hook it awaits returns.
Handle(w) ==
    \/ HandleCreate(w)
    \/ HandleGet(w)
    \/ HandleUpdate(w)
    \/ HandleDelete(w)
    \/ HandleAction(w)

\* The Worker task, once spawned, and the task of a caller awaiting its
\* reply are scheduled again while they can take a step.
SpecLive ==
    /\ Init
    /\ [][NextLive]_vars
    /\ \A w \in {"res"} : WF_vars(Run(w) \/ Recv(w) \/ Handle(w))
    /\ \A c \in Callers : WF_waiting(Await(c))

\* One task more than the buffer has places, each making one call to a
\* Worker that may be slow to start and to handle.
FullRequests == {[kind |-> "Create", id |-> 0, arg |-> 0]}

InitFull == InitOf({"res"}, Capacity + 1)

CallFull(c) ==
    /\ result[c] = NoResult
    /\ \E w \in sys, req \in FullRequests : Send(c, w, req)

SuspendFull(c) ==
    /\ result[c] = NoResult
    /\ \E w \in sys, req \in FullRequests : SuspendSend(c, w, req)

NextFull ==
    \/ \E c \in Callers : CallFull(c)
    \/ \E c \in Callers : SuspendFull(c)
    \/ \E c \in Callers : ResumeSend(c)
    \/ \E c \in Callers : Await(c)
    \/ \E w \in sys : Run(w)
    \/ \E w \in sys : Recv(w)
    \/ \E w \in sys : HandleCreate(w)

\* The Worker is spawned, its hooks return, and a task whose send or reply
\* is ready is polled again.
SpecFull ==
    /\ InitFull
    /\ [][NextFull]_vars
    /\ \A w \in Workers :
          /\ WF_vars(Run(w))
          /\ WF_vars(Recv(w))
          /\ WF_vars(HandleCreate(w))
    /\ \A c \in Callers : WF_waiting(ResumeSend(c))

\* ------------------------------------------------------------ Order actor
\* OrderCreate: the user, the product and the quantity ordered.
OrderParams ==
    {[user_id |-> 1, product_id |-> 1, quantity |-> q] : q \in 1 .. MaxCalls}

\* Order::from_create_params, which cannot fail
OrderNew(id, params) ==
    [id |-> id, user_id |-> params.user_id, product_id |-> params.product_id,
     quantity |-> params.quantity]

\* How far on_create has come in the Create being handled: "new" before
\* its first statement, "user" while it awaits user_client.get, "product"
\* while it awaits product_client.reserve_stock.
OrderStage(m) == IF "stage" \in DOMAIN m THEN m.stage ELSE "new"

UserAny(r) == r.tag = "Ok"

\* `let user = user_client.get(..).await?; if user.is_none() { return Err }`
UserPresent(r) == r.tag = "Ok" /\ r.val.some

ReserveAny(r) == TRUE

\* `product_client.reserve_stock(..).await?`
ReserveOk(r) == r.tag = "Ok"

ReadyOnOk(k) == slot[k].tag = "Ok"

\* The oneshot receiver of call k resolves: a value was sent, or the sender
\* was dropped.
Ready(k) == slot[k].tag \in {"Ok", "Err", "TxDropped"}

\* What an await on the oneshot receiver of call k yields once it is ready.
Awaited(k) == IF IsValue(slot[k]) THEN slot[k] ELSE ActorDropped

\* A test with the three actors running: the user 1 registered or not, the
\* product 1 with some stock, the test task holding the Order client.
InitOrder ==
    /\ sys = {"order", "user", "product"}
    /\ phase = [w \in Workers |-> IF w \in {"order", "user", "product"}
                                   THEN "Running" ELSE "Created"]
    /\ \E present \in BOOLEAN, q \in 0 .. MaxCalls :
          store = [w \in Workers |->
                     IF w = "user" /\ present
                       THEN Insert(Empty, 1, [id |-> 1, val |-> 1])
                     ELSE IF w = "product"
                       THEN Insert(Empty, 1,
                                   [id |-> 1, name |-> "Widget",
                                    price |-> 10, quantity |-> q])
                     ELSE Empty]
    /\ next_id = [w \in Workers |-> 1]
    /\ mailbox = [w \in Workers |-> <<>>]
    /\ cur = [w \in Workers |-> NoMsg]
    /\ holds = [c \in Callers |-> IF c = 1 THEN {"order"} ELSE {}]
    /\ waiting = [c \in Callers |-> 0]
    /\ result = [c \in Callers |-> NoResult]
    /\ slot = [k \in CallIds |-> Free]
    /\ nCalls = 0
    /\ issued = [w \in Workers |-> <<>>]
    /\ inserted = [w \in Workers |-> {}]
    /\ fresh = [w \in Workers |-> Empty]
    /\ taken = [w \in Workers |-> 0]
    /\ handled = [w \in Workers |-> <<>>]
    /\ closedWith = [w \in Workers |-> -1]
    /\ last = [w \in Workers |-> NoLast]
    /\ sending = [c \in Callers |-> NoMsg]
    /\ exps = <<>>
    /\ verdict = "none"
    /\ scripted = <<>>
    /\ reserved = 0
    /\ method = [c \in Callers |-> "none"]

\* order_client.create_order(params), at most MaxCalls times in a test
CallOrder(c) ==
    /\ taken["order"] + Len(mailbox["order"]) < MaxCalls
    /\ \E p \in OrderParams :
          Send(c, "order", [kind |-> "Create", id |-> 0, arg |-> p])

\* The end of the Create arm for the Order m: on_create returned, the Order
\* is inserted when it returned Ok, and the reply is sent.  `base` is the
\* oneshot channels as the hook's last await left them.
OrderEnd(w, m, ok, user, reserve, base) ==
    /\ store' = [store EXCEPT
                   ![w] = IF ok THEN Insert(@, m.oid, OrderNew(m.oid, m.arg))
                          ELSE @]
    /\ inserted' = [inserted EXCEPT
                      ![w] = IF ok THEN @ \cup {m.oid} ELSE @]
    /\ slot' = [base EXCEPT
                  ![m.call] = IF @ = Pending
                                THEN (IF ok THEN Ok(m.oid) ELSE EntityError)
                                ELSE Free]
    /\ cur' = [cur EXCEPT ![w] = NoMsg]
    /\ handled' = [handled EXCEPT ![w] = Append(@, m.call)]
    /\ last' = [last EXCEPT
                  ![w] = [kind |-> "Create", id |-> m.oid,
                          hook |-> IF ok THEN "ok" ELSE "err",
                          reply |-> IF ok THEN Ok(m.oid) ELSE EntityError,
                          sent |-> slot[m.call] = Pending,
                          user |-> user, reserve |-> reserve,
                          quantity |-> m.arg.quantity,
                          stock0 |-> m.stock0]]

\* The Create arm up to the first await of Order::on_create: the Id is
\* allocated, the Order built, and user_client.get(user_id) sends its Get;
\* the send fails at once with ActorClosed when the User actor is gone.
\* stock0 is history: the Product store as this Create found it.
OrderBegin(w) ==
    /\ w = "order"
    /\ phase[w] = "Running"
    /\ cur[w].kind = "Create"
    /\ OrderStage(cur[w]) = "new"
    /\ next_id' = [next_id EXCEPT ![w] = NextId(@)]
    /\ issued' = [issued EXCEPT ![w] = Append(@, next_id[w])]
    /\ LET m == [kind |-> "Create", id |-> 0, arg |-> cur[w].arg,
                 call |-> cur[w].call, stage |-> "user",
                 wait |-> nCalls + 1, oid |-> next_id[w],
                 user |-> NoResult, stock0 |-> store["product"]]
       IN  IF ReceiverAlive("user")
             THEN /\ mailbox' = [mailbox EXCEPT
                                   !["user"] =
                                     Append(@, [kind |-> "Get",
                                                id |-> m.arg.user_id,
                                                arg |-> 0,
                                                call |-> nCalls + 1])]
                  /\ nCalls' = nCalls + 1
                  /\ slot' = [slot EXCEPT ![nCalls + 1] = Pending]
                  /\ cur' = [cur EXCEPT ![w] = m]
                  /\ UNCHANGED <<store, inserted, handled, last>>
             ELSE /\ OrderEnd(w, m, FALSE, ActorClosed, NoResult, slot)
                  /\ UNCHANGED <<mailbox, nCalls>>
    /\ UNCHANGED <<sys, phase, holds, waiting, result, fresh, taken,
                   closedWith, sending, exps, verdict, scripted,
                   reserved, method>>

\* on_create resumes with the reply to its Get: an error or an absent user
\* ends it with Err; otherwise product_client.reserve_stock sends its
\* Action, which fails at once when the Product actor is gone.
OrderUserReply(w) ==
    /\ w = "order"
    /\ phase[w] = "Running"
    /\ OrderStage(cur[w]) = "user"
    /\ Ready(cur[w].wait)
    /\ LET r == Awaited(cur[w].wait)
           base == [slot EXCEPT ![cur[w].wait] = Free]
           m == [cur[w] EXCEPT !.stage = "product", !.wait = nCalls + 1,
                               !.user = r]
       IN  IF UserPresent(r) /\ ReceiverAlive("product")
             THEN /\ mailbox' = [mailbox EXCEPT
                                   !["product"] =
                                     Append(@, [kind |-> "Action",
                                                id |-> m.arg.product_id,
                                                arg |-> ReserveStock(
                                                          m.arg.quantity),
                                                call |-> nCalls + 1])]
                  /\ nCalls' = nCalls + 1
                  /\ slot' = [base EXCEPT ![nCalls + 1] = Pending]
                  /\ cur' = [cur EXCEPT ![w] = m]
                  /\ UNCHANGED <<store, inserted, handled, last>>
             ELSE /\ OrderEnd(w, cur[w], FALSE, r,
                              IF UserPresent(r) THEN ActorClosed
                              ELSE NoResult, base)
                  /\ UNCHANGED <<mailbox, nCalls>>
    /\ UNCHANGED <<sys, phase, next_id, holds, waiting, result, issued,
                   fresh, taken, closedWith, sending, exps, verdict,
                   scripted, reserved, method>>

\* on_create resumes with the reply to its ReserveStock and returns; the
\* Create arm inserts the Order when it returned Ok.
OrderReserveReply(w) ==
    /\ w = "order"
    /\ phase[w] = "Running"
    /\ OrderStage(cur[w]) = "product"
    /\ Ready(cur[w].wait)
    /\ OrderEnd(w, cur[w], ReserveOk(Awaited(cur[w].wait)), cur[w].user,
                Awaited(cur[w].wait), [slot EXCEPT ![cur[w].wait] = Free])
    /\ UNCHANGED <<sys, phase, next_id, mailbox, holds, waiting, result,
                   nCalls, issued, fresh, taken, closedWith, sending, exps,
                   verdict, scripted, reserved, method>>

\* The User and Product actors may end while the Order actor runs.
NextOrder ==
    \/ \E c \in Callers : CallOrder(c)
    \/ \E c \in Callers : Await(c)
    \/ \E w \in sys : Recv(w)
    \/ \E w \in sys : OrderBegin(w)
    \/ \E w \in sys : OrderUserReply(w)
    \/ \E w \in sys : OrderReserveReply(w)
    \/ \E w \in {"user"} : HandleGet(w)
    \/ \E w \in {"product"} : HandleAction(w)
    \/ \E w \in {"user", "product"} : Crash(w)

SpecOrder == InitOrder /\ [][NextOrder]_vars

\* test_concurrent_orders: one task more than the Order buffer has places,
\* each with a clone of the Order client and one order of one unit to
\* place; the user is registered and the stock is one unit short.
RaceParams == [user_id |-> 1, product_id |-> 1, quantity |-> 1]

InitRace ==
    /\ sys = {"order", "user", "product"}
    /\ phase = [w \in Workers |-> IF w \in {"order", "user", "product"}
                                   THEN "Running" ELSE "Created"]
    /\ store = [w \in Workers |->
                  IF w = "user"
                    THEN Insert(Empty, 1, [id |-> 1, val |-> 1])
                  ELSE IF w = "product"
                    THEN Insert(Empty, 1,
                                [id |-> 1, name |-> "Limited Widget",
                                 price |-> 10, quantity |-> Capacity])
                  ELSE Empty]
    /\ next_id = [w \in Workers |-> 1]
    /\ mailbox = [w \in Workers |-> <<>>]
    /\ cur = [w \in Workers |-> NoMsg]
    /\ holds = [c \in Callers |-> IF c <= Capacity + 1 THEN {"order"}
                                   ELSE {}]
    /\ waiting = [c \in Callers |-> 0]
    /\ result = [c \in Callers |-> NoResult]
    /\ slot = [k \in CallIds |-> Free]
    /\ nCalls = 0
    /\ issued = [w \in Workers |-> <<>>]
    /\ inserted = [w \in Workers |-> {}]
    /\ fresh = [w \in Workers |-> Empty]
    /\ taken = [w \in Workers |-> 0]
    /\ handled = [w \in Workers |-> <<>>]
    /\ closedWith = [w \in Workers |-> -1]
    /\ last = [w \in Workers |-> NoLast]
    /\ sending = [c \in Callers |-> NoMsg]
    /\ exps = <<>>
    /\ verdict = "none"
    /\ scripted = <<>>
    /\ reserved = 0
    /\ method = [c \in Callers |-> "none"]

CallRace(c) ==
    /\ result[c] = NoResult
    /\ Send(c, "order", [kind |-> "Create", id |-> 0, arg |-> RaceParams])

SuspendRace(c) ==
    /\ result[c] = NoResult
    /\ SuspendSend(c, "order",
                   [kind |-> "Create", id |-> 0, arg |-> RaceParams])

NextRace ==
    \/ \E c \in Callers : CallRace(c)
    \/ \E c \in Callers : SuspendRace(c)
    \/ \E c \in Callers : ResumeSend(c)
    \/ \E c \in Callers : Await(c)
    \/ \E w \in sys : Recv(w)
    \/ \E w \in sys : OrderBegin(w)
    \/ \E w \in sys : OrderUserReply(w)
    \/ \E w \in sys : OrderReserveReply(w)
    \/ \E w \in {"user"} : HandleGet(w)
    \/ \E w \in {"product"} : HandleAction(w)

\* The next step of the task of actor w, and of the task of caller c once
\* its call is under way.
ActorStep(w) ==
    \/ Recv(w)
    \/ OrderBegin(w)
    \/ OrderUserReply(w)
    \/ OrderReserveReply(w)
    \/ (w = "user" /\ HandleGet(w))
    \/ (w = "product" /\ HandleAction(w))

CallerStep(c) == ResumeSend(c) \/ Await(c)

\* Every task is scheduled again while it can take a step; a freed place in
\* a buffer goes to a queued sender.
SpecRace ==
    /\ InitRace
    /\ [][NextRace]_vars
    /\ \A w \in {"order", "user", "product"} : WF_vars(ActorStep(w))
    /\ \A c \in Callers : WF_waiting(CallerStep(c))

\* OrderSystem: the test task owns the three clients and the task handles.
InitSystem ==
    /\ sys = {"order", "user", "product"}
    /\ phase = [w \in Workers |-> IF w \in {"order", "user", "product"}
                                   THEN "Running" ELSE "Created"]
    /\ \E present \in BOOLEAN :
          store = [w \in Workers |->
                     IF w = "user" /\ present
                       THEN Insert(Empty, 1, [id |-> 1, val |-> 1])
                     ELSE IF w = "product"
                       THEN Insert(Empty, 1,
                                   [id |-> 1, name |-> "Widget",
                                    price |-> 10, quantity |-> MaxCalls])
                     ELSE Empty]
    /\ next_id = [w \in Workers |-> 1]
    /\ mailbox = [w \in Workers |-> <<>>]
    /\ cur = [w \in Workers |-> NoMsg]
    /\ holds = [c \in Callers |-> IF c = 1 THEN {"order", "user", "product"}
                                   ELSE {}]
    /\ waiting = [c \in Callers |-> 0]
    /\ result = [c \in Callers |-> NoResult]
    /\ slot = [k \in CallIds |-> Free]
    /\ nCalls = 0
    /\ issued = [w \in Workers |-> <<>>]
    /\ inserted = [w \in Workers |-> {}]
    /\ fresh = [w \in Workers |-> Empty]
    /\ taken = [w \in Workers |-> 0]
    /\ handled = [w \in Workers |-> <<>>]
    /\ closedWith = [w \in Workers |-> -1]
    /\ last = [w \in Workers |-> NoLast]
    /\ sending = [c \in Callers |-> NoMsg]
    /\ exps = <<>>
    /\ verdict = "none"
    /\ scripted = <<>>
    /\ reserved = 0
    /\ method = [c \in Callers |-> "none"]

\* The test uses the system until it calls shutdown.
UseSystem(c) == "order" \in holds[c] /\ CallOrder(c)

\* OrderSystem::shutdown, step 1: drop(order_client), drop(user_client),
\* drop(product_client), in this order.
ShutdownDrop(c) ==
    /\ holds[c] # {}
    /\ DropClient(c)
    /\ holds'[c] = IF "order" \in holds[c] THEN {"user", "product"}
                   ELSE IF "user" \in holds[c] THEN {"product"}
                   ELSE {}

\* What shutdown returns once every `handle.await` returned Ok.
ShutdownOk == [tag |-> "Ok", shutdown |-> TRUE]

\* OrderSystem::shutdown, step 2: the handles of the User, Product and Order
\* tasks are awaited in turn; each await returns when its task has ended.
ShutdownJoin(c) ==
    /\ c = 1
    /\ holds[c] = {}
    /\ "shutdown" \notin DOMAIN result[c]
    /\ \A w \in sys : phase[w] = "Stopped"
    /\ result' = [result EXCEPT ![c] = ShutdownOk]
    /\ UNCHANGED <<sys, phase, store, next_id, mailbox, cur, holds, waiting,
                   slot, nCalls, issued, inserted, fresh, taken, handled,
                   closedWith, last, sending, exps, verdict, scripted,
                   reserved, method>>

NextSystem ==
    \/ \E c \in Callers : UseSystem(c)
    \/ \E c \in Callers : Await(c)
    \/ \E c \in Callers : ShutdownDrop(c)
    \/ \E c \in Callers : ShutdownJoin(c)
    \/ \E w \in sys : Recv(w)
    \/ \E w \in sys : Stop(w)
    \/ \E w \in sys : OrderBegin(w)
    \/ \E w \in sys : OrderUserReply(w)
    \/ \E w \in sys : OrderReserveReply(w)
    \/ \E w \in {"user"} : HandleGet(w)
    \/ \E w \in {"product"} : HandleAction(w)

\* Every spawned task is scheduled again while it can take a step, and so
\* is the test task inside shutdown.
SpecSystem ==
    /\ InitSystem
    /\ [][NextSystem]_vars
    /\ \A w \in Workers :
          /\ WF_vars(Recv(w))
          /\ WF_vars(Stop(w))
          /\ WF_vars(OrderBegin(w))
          /\ WF_vars(OrderUserReply(w))
          /\ WF_vars(OrderReserveReply(w))
          /\ WF_vars(HandleGet(w))
          /\ WF_vars(HandleAction(w))
    /\ \A c \in Callers : WF_vars(ShutdownJoin(c))

\* ------------------------------------------------------------- MockClient
\* What the builders push: expect_create(), expect_get(id) and
\* expect_action(id), each closed by return_ok(value) or return_err(error).
Expectations ==
    {[kind |-> "Create", id |-> 0, response |-> Ok(1)],
     [kind |-> "Get", id |-> 1, response |-> Ok(1)],
     [kind |-> "Action", id |-> 1, response |-> EntityError]}

\* MockClient::new: the responder task is spawned at once, the queue empty.
InitMock ==
    /\ sys = {"mock"}
    /\ phase = [w \in Workers |-> IF w = "mock" THEN "Running"
                                   ELSE "Created"]
    /\ store = [w \in Workers |-> Empty]
    /\ next_id = [w \in Workers |-> 1]
    /\ mailbox = [w \in Workers |-> <<>>]
    /\ cur = [w \in Workers |-> NoMsg]
    /\ holds = [c \in Callers |-> IF c <= NumCallers THEN {"mock"} ELSE {}]
    /\ waiting = [c \in Callers |-> 0]
    /\ result = [c \in Callers |-> NoResult]
    /\ slot = [k \in CallIds |-> Free]
    /\ nCalls = 0
    /\ issued = [w \in Workers |-> <<>>]
    /\ inserted = [w \in Workers |-> {}]
    /\ fresh = [w \in Workers |-> Empty]
    /\ taken = [w \in Workers |-> 0]
    /\ handled = [w \in Workers |-> <<>>]
    /\ closedWith = [w \in Workers |-> -1]
    /\ last = [w \in Workers |-> NoLast]
    /\ sending = [c \in Callers |-> NoMsg]
    /\ exps = <<>>
    /\ verdict = "none"
    /\ scripted = <<>>
    /\ reserved = 0
    /\ method = [c \in Callers |-> "none"]

\* {Get,Create,Action}ExpectationBuilder::{return_ok,return_err}
Expect(e) ==
    /\ Len(scripted) < MaxExpect
    /\ exps' = Append(exps, e)
    /\ scripted' = Append(scripted, e)
    /\ UNCHANGED <<reserved, method>>
    /\ UNCHANGED <<sys, phase, store, next_id, mailbox, cur, holds, waiting,
                   result, slot, nCalls, issued, inserted, fresh, taken,
                   handled, closedWith, last, sending, verdict>>

\* The requests a test sends through mock.client().
MockRequests ==
    {[kind |-> "Create", id |-> 0, arg |-> 0]}
    \cup {[kind |-> "Get", id |-> 2, arg |-> 0],
          [kind |-> "Action", id |-> 1, arg |-> 0],
          [kind |-> "Update", id |-> 1, arg |-> 0]}

CallMock(c) ==
    /\ nCalls < MaxCalls
    /\ \E req \in MockRequests : Send(c, "mock", req)

\* A call made once the responder task is gone.
CallMockClosed(c) == \E req \in MockRequests : SendClosed(c, "mock", req)

NoEntry == [kind |-> "None"]

ExpBack(q) == IF q = <<>> THEN NoEntry ELSE q[Len(q)]

\* `exps.pop_front()`: the entry at the front, None on an empty queue
ExpFront(q) == IF q = <<>> THEN NoEntry ELSE Head(q)

\* `exps.pop_front()`: what it leaves in the queue
ExpRest(q) == IF q = <<>> THEN q ELSE Tail(q)

MatchesAnyEntry(req, e) == e # NoEntry

MatchesKindAndId(req, e) == e.kind = req.kind /\ e.id = req.id

\* The five arms of `match (request, expectation)` that answer: the kinds
\* agree; the Ids and payloads are bound to `_`.
Matches(req, e) == e.kind = req.kind

CannedOk(e) == Ok(0)

\* `respond_to.send(response)`
Canned(e) == e.response

MockLivesOn(matched) == "Running"

\* The responder task after a turn: the `_` arm panics, which ends it.
MockPhaseAfter(matched) == IF matched THEN "Running" ELSE "Dropped"

\* One turn of the responder loop, which has no await past recv(): take a
\* request, pop the front expectation, and answer with its response when
\* the kinds agree.  Otherwise panic: the task unwinds, and the receiver,
\* the requests it buffers and their oneshot senders are dropped.
MockRespond(w) ==
    /\ w = "mock"
    /\ AtRecv(w)
    /\ mailbox[w] # <<>>
    /\ exps' = ExpRest(exps)
    /\ taken' = [taken EXCEPT ![w] = @ + 1]
    /\ IF Matches(RecvMsg(mailbox[w]), ExpFront(exps))
         THEN /\ mailbox' = [mailbox EXCEPT ![w] = RecvRest(@)]
              /\ slot' = Respond(RecvMsg(mailbox[w]).call,
                                 Canned(ExpFront(exps)))
              /\ handled' = [handled EXCEPT
                               ![w] = Append(@, RecvMsg(mailbox[w]).call)]
              /\ phase' = [phase EXCEPT ![w] = MockPhaseAfter(TRUE)]
         ELSE /\ mailbox' = [mailbox EXCEPT ![w] = <<>>]
              /\ slot' = [k \in CallIds |->
                            IF \E i \in 1 .. Len(mailbox[w]) :
                                  mailbox[w][i].call = k
                              THEN (IF slot[k] = Pending THEN TxDropped
                                    ELSE Free)
                              ELSE slot[k]]
              /\ handled' = handled
              /\ phase' = [phase EXCEPT ![w] = MockPhaseAfter(FALSE)]
    /\ last' = [last EXCEPT
                  ![w] = [kind |-> RecvMsg(mailbox[w]).kind,
                          id |-> RecvMsg(mailbox[w]).id,
                          call |-> RecvMsg(mailbox[w]).call,
                          n |-> taken[w] + 1,
                          entry |-> ExpFront(exps)]]
    /\ UNCHANGED <<sys, store, next_id, cur, holds, waiting, result, nCalls,
                   issued, inserted, fresh, closedWith, sending, verdict,
                   scripted, reserved, method>>

VerifyAlwaysOk(q) == "ok"

\* MockClient::verify: `if !exps.is_empty() { panic!(..) }`
VerifyOutcome(q) == IF q = <<>> THEN "ok" ELSE "panic"

Verify ==
    /\ verdict' = VerifyOutcome(exps)
    /\ UNCHANGED <<sys, phase, store, next_id, mailbox, cur, holds, waiting,
                   result, slot, nCalls, issued, inserted, fresh, taken,
                   handled, closedWith, last, sending, exps, scripted,
                   reserved, method>>

NextMock ==
    \/ \E e \in Expectations : Expect(e)
    \/ \E c \in Callers : CallMock(c)
    \/ \E c \in Callers : CallMockClosed(c)
    \/ \E c \in Callers : Await(c)
    \/ \E w \in sys : MockRespond(w)
    \/ Verify

SpecMock == InitMock /\ [][NextMock]_vars

\* test_concurrent_orders once its product is created: the Product Worker is
\* running, product 1 is stored with a stock of one unit per reserving task,
\* and every task holds a clone of the ProductClient.
StockProduct ==
    [id |-> 1, name |-> "Limited Widget", price |-> 10,
     quantity |-> NumReservers]

InitStock ==
    /\ sys = {"product"}
    /\ phase = [w \in Workers |-> IF w = "product" THEN "Running"
                                   ELSE "Created"]
    /\ store = [w \in Workers |-> IF w = "product"
                                    THEN Insert(Empty, 1, StockProduct)
                                    ELSE Empty]
    /\ next_id = [w \in Workers |-> IF w = "product" THEN 2 ELSE 1]
    /\ mailbox = [w \in Workers |-> <<>>]
    /\ cur = [w \in Workers |-> NoMsg]
    /\ holds = [c \in Callers |-> IF c <= NumReservers THEN {"product"}
                                   ELSE {}]
    /\ waiting = [c \in Callers |-> 0]
    /\ result = [c \in Callers |-> NoResult]
    /\ slot = [k \in CallIds |-> Free]
    /\ nCalls = 0
    /\ issued = [w \in Workers |-> IF w = "product" THEN <<1>> ELSE <<>>]
    /\ inserted = [w \in Workers |-> IF w = "product" THEN {1} ELSE {}]
    /\ fresh = [w \in Workers |-> IF w = "product"
                                    THEN Insert(Empty, 1, StockProduct)
                                    ELSE Empty]
    /\ taken = [w \in Workers |-> 0]
    /\ handled = [w \in Workers |-> <<>>]
    /\ closedWith = [w \in Workers |-> -1]
    /\ last = [w \in Workers |-> NoLast]
    /\ sending = [c \in Callers |-> NoMsg]
    /\ exps = <<>>
    /\ verdict = "none"
    /\ scripted = <<>>
    /\ reserved = 0
    /\ method = [c \in Callers |-> "none"]

\* ProductClient::reserve_stock(id, 1), once per task
Reserve(c) ==
    /\ result[c] = NoResult
    /\ Send(c, "product",
            [kind |-> "Action", id |-> 1, arg |-> ReserveStock(1)])

NextStock ==
    \/ \E c \in Callers : Reserve(c)
    \/ \E c \in Callers : Await(c)
    \/ \E w \in sys : Recv(w)
    \/ \E w \in sys : HandleAction(w)

SpecStock == InitStock /\ [][NextStock]_vars

\* The same product and tasks, the tasks now reserving any amount up to one
\* more than the stock, checking the stock and getting the product.
ProductRequests ==
    {[kind |-> "Action", id |-> 1, arg |-> ReserveStock(n)] :
        n \in 1 .. (NumReservers + 1)}
    \cup {[kind |-> "Action", id |-> 1, arg |-> CheckStock],
          [kind |-> "Get", id |-> 1, arg |-> 0]}

CallProduct(c) ==
    /\ nCalls < MaxCalls
    /\ \E req \in ProductRequests : Send(c, "product", req)

NextProduct ==
    \/ \E c \in Callers : CallProduct(c)
    \/ \E c \in Callers : Await(c)
    \/ \E w \in sys : Recv(w)
    \/ \E w \in sys : HandleGet(w)
    \/ \E w \in sys : HandleAction(w)

SpecProduct == InitStock /\ [][NextProduct]_vars

\* ------------------------------------------- create_mock_client, helpers
\* create_mock_client::<Product>(n): a channel whose receiver the test keeps,
\* and a ResourceClient on its sender, which the test wraps in a
\* ProductClient and moves into the tasks it spawns.  "mock" names the
\* channel; its phase is "Running" while the test holds the receiver.  The
\* test spawns LegacyTasks tasks.
LegacyTasks == 2

InitLegacy ==
    /\ sys = {"mock"}
    /\ phase = [w \in Workers |-> IF w = "mock" THEN "Running"
                                   ELSE "Created"]
    /\ store = [w \in Workers |-> Empty]
    /\ next_id = [w \in Workers |-> 1]
    /\ mailbox = [w \in Workers |-> <<>>]
    /\ cur = [w \in Workers |-> NoMsg]
    /\ holds = [c \in Callers |-> IF c <= LegacyTasks THEN {"mock"} ELSE {}]
    /\ waiting = [c \in Callers |-> 0]
    /\ result = [c \in Callers |-> NoResult]
    /\ slot = [k \in CallIds |-> Free]
    /\ nCalls = 0
    /\ issued = [w \in Workers |-> <<>>]
    /\ inserted = [w \in Workers |-> {}]
    /\ fresh = [w \in Workers |-> Empty]
    /\ taken = [w \in Workers |-> 0]
    /\ handled = [w \in Workers |-> <<>>]
    /\ closedWith = [w \in Workers |-> -1]
    /\ last = [w \in Workers |-> NoLast]
    /\ sending = [c \in Callers |-> NoMsg]
    /\ exps = <<>>
    /\ verdict = "none"
    /\ scripted = <<>>
    /\ reserved = 0
    /\ method = [c \in Callers |-> "none"]

\* Display of a FrameworkError, the text before the argument and the
\* argument.
ErrorToString(e) ==
    IF e.err = "ActorClosed" THEN <<"Actor closed">>
    ELSE IF e.err = "ActorDropped" THEN <<"Actor dropped response channel">>
    ELSE IF e.err = "NotFound" THEN <<"Item not found: ", e.msg>>
    ELSE <<"Entity error: ">>

\* ProductError::ActorCommunicationError(e.to_string())
ActorCommunicationError(e) ==
    [tag |-> "Err", err |-> "ActorCommunicationError",
     msg |-> ErrorToString(e)]

\* unreachable!(..) in the task of the caller
Panicked == [tag |-> "Panic"]

\* Ok(())
Unit == <<>>

\* The methods of ProductClient and the request each sends.
ProductMethods ==
    {"create_product", "get", "delete", "check_stock", "reserve_stock"}

MethodRequests(m) ==
    IF m = "create_product" THEN {[kind |-> "Create", id |-> 0, arg |-> 0]}
    ELSE IF m = "get" THEN {[kind |-> "Get", id |-> 1, arg |-> 0]}
    ELSE IF m = "delete" THEN {[kind |-> "Delete", id |-> 1, arg |-> 0]}
    ELSE IF m = "check_stock"
      THEN {[kind |-> "Action", id |-> 1, arg |-> CheckStock]}
    ELSE {[kind |-> "Action", id |-> 1, arg |-> ReserveStock(1)]}

ProductClientResultLenient(m, r) ==
    IF r.tag = "Err" THEN Ok(Unit)
    ELSE IF m = "check_stock"
      THEN (IF r.val.op = "CheckStock" THEN Ok(r.val.level) ELSE Panicked)
    ELSE IF m = "reserve_stock"
      THEN (IF r.val.op = "ReserveStock" THEN Ok(Unit) ELSE Panicked)
    ELSE r

\* What a method returns for the Result r of the call on the inner Client:
\* the `match` of check_stock and reserve_stock, the map_err of the others.
ProductClientResult(m, r) ==
    IF r.tag = "Err" THEN ActorCommunicationError(r)
    ELSE IF m = "check_stock"
      THEN (IF r.val.op = "CheckStock" THEN Ok(r.val.level) ELSE Panicked)
    ELSE IF m = "reserve_stock"
      THEN (IF r.val.op = "ReserveStock" THEN Ok(Unit) ELSE Panicked)
    ELSE r

\* A task enters a method of the ProductClient, whose call on the inner
\* Client enqueues the request.
ProductCall(c) ==
    /\ nCalls < MaxCalls
    /\ method[c] = "none"
    /\ "mock" \in holds[c]
    /\ waiting[c] = 0
    /\ ReceiverAlive("mock")
    /\ Len(mailbox["mock"]) < Capacity
    /\ \E m \in ProductMethods :
          \E req \in MethodRequests(m) :
             /\ method' = [method EXCEPT ![c] = m]
             /\ mailbox' = [mailbox EXCEPT
                              !["mock"] = Append(@, [kind |-> req.kind,
                                                     id |-> req.id,
                                                     arg |-> req.arg,
                                                     call |-> nCalls + 1])]
    /\ nCalls' = nCalls + 1
    /\ slot' = [slot EXCEPT ![nCalls + 1] = Pending]
    /\ waiting' = [waiting EXCEPT ![c] = nCalls + 1]
    /\ UNCHANGED <<sys, phase, store, next_id, cur, holds, result, issued,
                   inserted, fresh, taken, handled, closedWith, last,
                   sending, exps, verdict, scripted, reserved>>

\* The same with the receiver gone: the send fails with ActorClosed, which
\* the method maps and returns.
ProductCallClosed(c) ==
    /\ method[c] = "none"
    /\ "mock" \in holds[c]
    /\ waiting[c] = 0
    /\ ~ReceiverAlive("mock")
    /\ \E m \in ProductMethods :
          result' = [result EXCEPT ![c] = ProductClientResult(m, ActorClosed)]
    /\ UNCHANGED <<sys, phase, store, next_id, mailbox, cur, holds, waiting,
                   slot, nCalls, issued, inserted, fresh, taken, handled,
                   closedWith, last, sending, exps, verdict, scripted,
                   reserved, method>>

\* The rest of the method: the oneshot receiver resolves, and the method
\* returns what it makes of the Result.
ProductReturn(c) ==
    /\ method[c] # "none"
    /\ waiting[c] # 0
    /\ slot[waiting[c]].tag \in {"Ok", "Err", "TxDropped"}
    /\ waiting' = [waiting EXCEPT ![c] = 0]
    /\ slot' = [slot EXCEPT ![waiting[c]] = Free]
    /\ result' = [result EXCEPT
                    ![c] = ProductClientResult(
                               method[c],
                               IF IsValue(slot[waiting[c]])
                                 THEN slot[waiting[c]] ELSE ActorDropped)]
    /\ method' = [method EXCEPT ![c] = "none"]
    /\ UNCHANGED <<sys, phase, store, next_id, mailbox, cur, holds, nCalls,
                   issued, inserted, fresh, taken, handled, closedWith, last,
                   sending, exps, verdict, scripted, reserved>>

\* expect_create, expect_get and expect_action, each named by the kind of
\* request its pattern accepts.
LegacyHelpers == {"Create", "Get", "Action"}

ExpectReturnsAny(k, msg) == Some(msg)

\* The `match` of a helper on Some(request): the payload and the oneshot
\* sender of a request of the helper's kind, None for any other.
ExpectReturns(k, msg) == IF msg.kind = k THEN Some(msg) ELSE None

\* The test awaits a helper and a request is buffered: recv() takes it; a
\* request the pattern rejects is dropped at the end of the `match`, its
\* oneshot sender unused.  The test holds what the helper returned in
\* cur["mock"].
ExpectHelper(w, k) ==
    /\ w = "mock"
    /\ AtRecv(w)
    /\ mailbox[w] # <<>>
    /\ LET msg == RecvMsg(mailbox[w])
           ret == ExpectReturns(k, msg)
       IN  /\ mailbox' = [mailbox EXCEPT ![w] = RecvRest(@)]
           /\ taken' = [taken EXCEPT ![w] = @ + 1]
           /\ cur' = [cur EXCEPT ![w] = IF ret.some THEN ret.item ELSE NoMsg]
           /\ slot' = [slot EXCEPT
                         ![msg.call] = IF ret.some THEN @
                                       ELSE IF @ = Pending THEN TxDropped
                                       ELSE Free]
           /\ last' = [last EXCEPT
                         ![w] = [kind |-> k, call |-> msg.call,
                                 returned |-> ret]]
    /\ UNCHANGED <<sys, phase, store, next_id, holds, waiting, result, nCalls,
                   issued, inserted, fresh, handled, closedWith, sending,
                   exps, verdict, scripted, reserved, method>>

\* The same once the buffer is empty and every Client clone is gone: recv()
\* returns None and so does the helper.
ExpectOnClosed(w, k) ==
    /\ w = "mock"
    /\ AtRecv(w)
    /\ mailbox[w] = <<>>
    /\ SenderCount(w) = 0
    /\ last' = [last EXCEPT
                  ![w] = [kind |-> k, call |-> 0, returned |-> None]]
    /\ UNCHANGED <<sys, phase, store, next_id, mailbox, cur, holds, waiting,
                   result, slot, nCalls, issued, inserted, fresh, taken,
                   handled, closedWith, sending, exps, verdict, scripted,
                   reserved, method>>

\* The values the test can send through the oneshot sender of a request:
\* a Result of the type the kind of the request fixes.
LegacyReplies(msg) ==
    IF msg.kind = "Create" THEN {Ok(IdToString("product", 1)), EntityError}
    ELSE IF msg.kind = "Get"
      THEN {Ok(Some(StockProduct)), Ok(None)}
    ELSE {Ok([op |-> "CheckStock", level |-> l]) : l \in 0 .. MaxId}
         \cup {Ok([op |-> "ReserveStock"]), EntityError,
               NotFound(IdToString("product", msg.id))}

\* `responder.send(v)` by the test
ReplyLegacy(w) ==
    /\ w = "mock"
    /\ phase[w] = "Running"
    /\ cur[w] # NoMsg
    /\ \E v \in LegacyReplies(cur[w]) : slot' = Respond(cur[w].call, v)
    /\ cur' = [cur EXCEPT ![w] = NoMsg]
    /\ handled' = [handled EXCEPT ![w] = Append(@, cur[w].call)]
    /\ UNCHANGED <<sys, phase, store, next_id, mailbox, holds, waiting,
                   result, nCalls, issued, inserted, fresh, taken, closedWith,
                   last, sending, exps, verdict, scripted, reserved, method>>

\* The test lets go of the oneshot sender without sending.
DropResponder(w) ==
    /\ w = "mock"
    /\ phase[w] = "Running"
    /\ cur[w] # NoMsg
    /\ slot' = [slot EXCEPT
                  ![cur[w].call] = IF @ = Pending THEN TxDropped ELSE Free]
    /\ cur' = [cur EXCEPT ![w] = NoMsg]
    /\ UNCHANGED <<sys, phase, store, next_id, mailbox, holds, waiting,
                   result, nCalls, issued, inserted, fresh, taken, handled,
                   closedWith, last, sending, exps, verdict, scripted,
                   reserved, method>>

\* The test function ends: the receiver goes, with the requests it buffers
\* and the oneshot sender the test holds.
DropReceiver(w) == w = "mock" /\ Crash(w)

\* A spawned task is over and its ProductClient is dropped.
TaskEnds(c) == method[c] = "none" /\ DropClient(c)

NextLegacy ==
    \/ \E c \in Callers : ProductCall(c)
    \/ \E c \in Callers : ProductCallClosed(c)
    \/ \E c \in Callers : ProductReturn(c)
    \/ \E c \in Callers : TaskEnds(c)
    \/ \E w \in sys, k \in LegacyHelpers : ExpectHelper(w, k)
    \/ \E w \in sys, k \in LegacyHelpers : ExpectOnClosed(w, k)
    \/ \E w \in sys : ReplyLegacy(w)
    \/ \E w \in sys : DropResponder(w)
    \/ \E w \in sys : DropReceiver(w)

SpecLegacy == InitLegacy /\ [][NextLegacy]_vars

\* ----------------------------------------------------------------- claims
Range(q) == {q[i] : i \in 1 .. Len(q)}

\* C1: a Worker has at most one request in handling: the requests recv() has
\* handed out are the finished ones plus, while a match arm (and the hook it
\* awaits) is running, exactly one more; and the oneshot channel of every
\* finished request has had its reply sent or its send discarded.
C1_OneRequestAtATime ==
    \A w \in sys :
        /\ taken[w] - Len(handled[w]) = (IF cur[w] = NoMsg THEN 0 ELSE 1)
        /\ \A k \in Range(handled[w]) : slot[k] # Pending

\* A hook is suspended while a later request waits in the buffer for it.
C1_Witness ==
    \E w \in sys :
        cur[w] # NoMsg /\ taken[w] >= 1 /\ mailbox[w] # <<>>

\* C2: with a stock of N and N tasks reserving one unit each, the stock is
\* never negative, every finished reservation took exactly one unit, every
\* task is told Ok, and once all have been told the stock is 0.
C2_ReserveSerialized ==
    LET q == store["product"][1].quantity
        tasks == 1 .. NumReservers
    IN  /\ q >= 0
        /\ q = NumReservers - Len(handled["product"])
        /\ \A c \in tasks :
              result[c] \in {NoResult, Ok([op |-> "ReserveStock"])}
        /\ (\A c \in tasks : result[c] # NoResult) => q = 0

\* Every task has its Ok and the stock is used up.
C2_Witness ==
    /\ \A c \in 1 .. NumReservers : result[c] = Ok([op |-> "ReserveStock"])
    /\ store["product"][1].quantity = 0

\* C3: when on_update returns Err for a stored Id, the reply is an
\* EntityError and the entity stored under the Id is the one stored before.
C3_FailedUpdateLeavesEntity ==
    \A w \in sys :
        (last[w].kind = "Update" /\ last[w].pre.some /\ last[w].hook = "err")
        => /\ last[w].reply = EntityError
           /\ GetCloned(store[w], last[w].id) = last[w].pre

\* C4: a Create whose from_create_params or on_create fails replies
\* EntityError, leaves the store as it was, and leaves the Id allocated for
\* it absent.
C4_FailedCreateStoresNothing ==
    [][\A w \in sys :
          (/\ cur[w].kind = "Create"
           /\ cur'[w] = NoMsg
           /\ last'[w].hook \in {"construct", "err"})
          => /\ last'[w].reply = EntityError
             /\ store'[w] = store[w]
             /\ last'[w].id = next_id[w]
             /\ next_id[w] \notin DOMAIN store'[w]]_vars

\* on_create has just failed on a Worker that stores something.
C4_Witness ==
    \E w \in sys :
        last[w].kind = "Create" /\ last[w].hook = "err"
        /\ DOMAIN store[w] # {}

\* C5: when on_delete returns Err for a stored Id, the reply is an
\* EntityError and a Get of the Id still finds the entity stored before.
C5_FailedDeleteKeepsEntity ==
    \A w \in sys :
        (last[w].kind = "Delete" /\ last[w].pre.some /\ last[w].hook = "err")
        => /\ last[w].reply = EntityError
           /\ last[w].id \in DOMAIN store[w]
           /\ Some(store[w][last[w].id]) = last[w].pre

\* on_delete has just failed.
C5_Witness ==
    \E w \in sys :
        last[w].kind = "Delete" /\ last[w].pre.some /\ last[w].hook = "err"

\* C6: for an Id never inserted, a Get replies Ok(None) and an Update, Delete
\* or Action replies NotFound with the Id in decimal; no hook runs and the
\* store stays as it was.
C6_NeverInsertedId ==
    [][\A w \in sys :
          (/\ cur[w].kind \in {"Get", "Update", "Delete", "Action"}
           /\ cur'[w] = NoMsg
           /\ cur[w].id \notin inserted[w])
          => /\ store'[w] = store[w]
             /\ last'[w].hook = "none"
             /\ last'[w].reply = (IF cur[w].kind = "Get" THEN Ok(None)
                                  ELSE NotFound(ToString(cur[w].id)))]_vars

\* A Delete of a never inserted Id was answered by a Worker that stores
\* something.
C6_Witness ==
    \E w \in sys :
        /\ last[w].kind = "Delete"
        /\ last[w].id \notin inserted[w]
        /\ DOMAIN store[w] # {}

C8_GetAfterCreate ==
    \A w \in sys :
        (last[w].kind = "Get" /\ last[w].id \in DOMAIN fresh[w])
        => last[w].reply = Ok(Some(fresh[w][last[w].id]))

\* A Get of a just created entity was answered.
C8_Witness ==
    \E w \in sys : last[w].kind = "Get" /\ last[w].id \in DOMAIN fresh[w]

\* C9: a stopped Worker has no Client clone left, an empty buffer, no request
\* in handling, and has handled and answered every request ever enqueued.
C9_DrainThenStop ==
    \A w \in sys :
        phase[w] = "Stopped"
        => /\ SenderCount(w) = 0
           /\ mailbox[w] = <<>>
           /\ cur[w] = NoMsg
           /\ Len(handled[w]) = nCalls
           /\ \A k \in CallIds : slot[k] # Pending

\* The Worker stopped after the last Client clone was dropped with two
\* requests still to handle.
C9_Witness ==
    \E w \in sys : phase[w] = "Stopped" /\ closedWith[w] >= 2

\* The calls of Worker w in the order of their handling: those finished, the
\* one in handling, those still buffered.
HandlingOrder(w) ==
    handled[w]
    \o (IF cur[w] = NoMsg THEN <<>> ELSE <<cur[w].call>>)
    \o [i \in 1 .. Len(mailbox[w]) |-> mailbox[w][i].call]

\* C10: the k-th request enqueued is the k-th request handled, and a request
\* has its reply exactly when its handling is finished, so a request is
\* handled only after every request enqueued before it was answered.
C10_FifoEffects ==
    \A w \in sys :
        /\ Len(HandlingOrder(w)) = nCalls
        /\ \A i \in 1 .. nCalls :
              /\ HandlingOrder(w)[i] = i
              /\ (i <= Len(handled[w])) <=> (slot[i] # Pending)

\* A Get, handled as the second request or later, found the entity an
\* earlier Create stored.
C10_Witness ==
    \E w \in sys :
        /\ Len(handled[w]) >= 2
        /\ last[w].kind = "Get"
        /\ last[w].reply.val.some

\* C11: a call made when the receiver of the Worker is gone returns
\* ActorClosed at once: the caller waits on no oneshot channel, none is left
\* behind, and the buffer of the Worker takes no request.
C11_SendToClosedMailbox ==
    [][\A c \in Callers :
          (/\ waiting[c] = 0
           /\ \E w \in holds[c] : ~ReceiverAlive(w)
           /\ (result'[c] # result[c] \/ waiting'[c] # 0))
          => /\ result'[c] = ActorClosed
             /\ waiting'[c] = 0
             /\ slot' = slot
             /\ nCalls' = nCalls
             /\ mailbox' = mailbox
             /\ cur' = cur]_vars

\* A caller was told ActorClosed by a Worker that had handled a request
\* before its task ended.
C11_Witness ==
    \E c \in Callers, w \in sys :
        /\ result[c] = ActorClosed
        /\ phase[w] = "Dropped"
        /\ Len(handled[w]) >= 1

\* C12: a caller waiting on a call whose oneshot sender went without a
\* value stops waiting, and what its call returns is ActorDropped.
C12_DroppedSlotObserved ==
    /\ \A c \in Callers :
          (waiting[c] # 0 /\ slot[waiting[c]] = TxDropped)
          ~> (waiting[c] = 0 /\ result[c] = ActorDropped)
    /\ [][\A c \in Callers :
             (/\ waiting[c] # 0
              /\ slot[waiting[c]] = TxDropped
              /\ waiting'[c] # waiting[c])
             => result'[c] = ActorDropped]_vars

\* A caller was told ActorDropped after the task of the Worker ended with a
\* request in handling.
C12_Witness ==
    \E c \in Callers, w \in sys :
        /\ result[c] = ActorDropped
        /\ phase[w] = "Dropped"
        /\ taken[w] > Len(handled[w])

\* The handling of call k ends in this step.
HandlingEnds(k) ==
    \E w \in sys : cur[w] # NoMsg /\ cur[w].call = k /\ cur'[w] = NoMsg

\* C13: the step that ends the handling of a request puts one value, the
\* reply of the branch taken, in the oneshot channel of that request, which
\* held none before; no other step puts a value in a oneshot channel or
\* changes the one it holds.
C13_ExactlyOneReply ==
    [][\A k \in CallIds :
          /\ HandlingEnds(k)
               => /\ slot[k] = Pending
                  /\ IsValue(slot'[k])
                  /\ \E w \in sys :
                        /\ slot'[k] = last'[w].reply
                        /\ last'[w].hook \in {"none", "ok", "err", "construct"}
          /\ (~HandlingEnds(k) /\ IsValue(slot'[k]))
               => slot'[k] = slot[k]]_vars

\* Two requests were handled, one on an error branch and one on a success
\* branch, and each left one value for its caller.
C13_Witness ==
    \E w \in sys :
        /\ Len(handled[w]) = 2
        /\ slot[1].tag = "Err"
        /\ slot[2].tag = "Ok"

\* C14: when from_create_params or a hook returns Err, the request is
\* answered EntityError and the Worker is back at recv(): still Running,
\* nothing in handling, the buffered requests kept.
C14_HookErrorKeepsRunning ==
    [][\A w \in sys :
          (/\ cur[w] # NoMsg
           /\ cur'[w] = NoMsg
           /\ last'[w].hook \in {"construct", "err"})
          => /\ last'[w].reply = EntityError
             /\ slot'[cur[w].call] = EntityError
             /\ phase'[w] = "Running"
             /\ AtRecv(w)'
             /\ mailbox'[w] = mailbox[w]]_vars

\* A caller was told EntityError and the request handled next was answered
\* Ok.
C14_Witness ==
    \E w \in sys, c \in Callers :
        /\ result[c] = EntityError
        /\ Len(handled[w]) = 2
        /\ last[w].reply.tag = "Ok"
        /\ phase[w] = "Running"

\* C15: a ReserveStock of more than the quantity of a stored Product is
\* answered EntityError and leaves the Product as it was: its quantity, what
\* a CheckStock would report and what a Get would return are those from
\* before the Action.
C15_FailedReserveIsNoOp ==
    [][\A w \in sys :
          (/\ cur[w].kind = "Action"
           /\ cur[w].arg.op = "ReserveStock"
           /\ cur[w].id \in DOMAIN store[w]
           /\ cur[w].arg.n > store[w][cur[w].id].quantity
           /\ cur'[w] = NoMsg)
          => /\ last'[w].reply = EntityError
             /\ store'[w][cur[w].id].quantity = store[w][cur[w].id].quantity
             /\ ProductHandleAction(store'[w][cur[w].id], CheckStock).res.level
                  = store[w][cur[w].id].quantity
             /\ GetCloned(store'[w], cur[w].id)
                  = GetCloned(store[w], cur[w].id)]_vars

\* A reservation failed on a Product from which an earlier one had taken
\* stock.
C15_Witness ==
    /\ last["product"].kind = "Action"
    /\ last["product"].hook = "err"
    /\ 1 \in DOMAIN store["product"]
    /\ store["product"][1].quantity \in 1 .. (NumReservers - 1)

\* C16: an Update of a stored Id whose on_update returned Ok is answered
\* with the entity now stored under the Id, the one a Get handled next
\* returns.
C16_UpdateRepliesStored ==
    \A w \in sys :
        (last[w].kind = "Update" /\ last[w].hook = "ok")
        => /\ last[w].id \in DOMAIN store[w]
           /\ last[w].reply = Ok(store[w][last[w].id])
           /\ Ok(Some(last[w].reply.val))
                = Ok(GetCloned(store[w], last[w].id))

\* An Update succeeded whose hook changed the entity.
C16_Witness ==
    \E w \in sys :
        /\ last[w].kind = "Update"
        /\ last[w].hook = "ok"
        /\ last[w].pre # Some(store[w][last[w].id])

\* C17: a Delete of a stored Id whose on_delete returned Ok is answered Ok
\* and removes that entry and no other; from then on a Get of the Id is
\* answered Ok(None) and an Update, Delete or Action of it NotFound, without
\* a hook and without a change to the store.
C17_DeleteRemoves ==
    [][\A w \in sys :
          (cur[w] # NoMsg /\ cur'[w] = NoMsg)
          => /\ (/\ cur[w].kind = "Delete"
                 /\ cur[w].id \in DOMAIN store[w]
                 /\ last'[w].hook = "ok")
                => /\ last'[w].reply = Ok(<<>>)
                   /\ DOMAIN store'[w] = DOMAIN store[w] \ {cur[w].id}
                   /\ \A i \in DOMAIN store'[w] : store'[w][i] = store[w][i]
             /\ cur[w].id \in inserted[w] \ DOMAIN store[w]
                => /\ store'[w] = store[w]
                   /\ last'[w].hook = "none"
                   /\ last'[w].reply
                        = (IF cur[w].kind = "Get" THEN Ok(None)
                           ELSE NotFound(ToString(cur[w].id)))]_vars

\* An Update of an Id deleted before was answered.
C17_Witness ==
    \E w \in sys :
        /\ last[w].kind = "Update"
        /\ last[w].id \in inserted[w] \ DOMAIN store[w]
        /\ Len(handled[w]) = 2

\* C18: handling an Action leaves the set of stored Ids as it was, whether
\* handle_action returned Ok or Err or the Id was not found, and leaves every
\* entity but the one named untouched.
C18_ActionKeepsEntries ==
    [][\A w \in sys :
          (cur[w].kind = "Action" /\ cur'[w] = NoMsg)
          => /\ DOMAIN store'[w] = DOMAIN store[w]
             /\ cur[w].id \in DOMAIN store[w]
                  => cur[w].id \in DOMAIN store'[w]
             /\ \A i \in DOMAIN store[w] \ {cur[w].id} :
                   store'[w][i] = store[w][i]]_vars

\* handle_action failed on a stored entity while another was stored too.
C18_Witness ==
    \E w \in sys :
        /\ last[w].kind = "Action"
        /\ last[w].hook = "err"
        /\ last[w].id \in DOMAIN store[w]
        /\ Cardinality(DOMAIN store[w]) = 2

\* C19: handling a Get leaves the store and the Id counter as they were and
\* answers Ok: with a copy of the stored entity, or with None when the Id is
\* not stored.
C19_GetReadOnly ==
    [][\A w \in sys :
          (cur[w].kind = "Get" /\ cur'[w] = NoMsg)
          => /\ store'[w] = store[w]
             /\ next_id'[w] = next_id[w]
             /\ last'[w].reply.tag = "Ok"
             /\ last'[w].reply.val
                  = (IF cur[w].id \in DOMAIN store[w]
                       THEN Some(store[w][cur[w].id]) ELSE None)]_vars

\* A Get found one of two stored entities.
C19_Witness ==
    \E w \in sys :
        /\ last[w].kind = "Get"
        /\ last[w].reply.val.some
        /\ Cardinality(DOMAIN store[w]) = 2

\* C20: a request whose caller dropped the oneshot receiver before the reply
\* is handled like any other: a Create that succeeds inserts its entity, a
\* Delete that succeeds removes its entity, the reply send fails and is
\* discarded, and the Worker is back at recv(), Running, with the buffered
\* requests kept.
C20_AbandonedStillHandled ==
    [][\A w \in sys :
          (/\ cur[w] # NoMsg
           /\ cur'[w] = NoMsg
           /\ slot[cur[w].call] = RxDropped)
          => /\ slot'[cur[w].call] = Free
             /\ ~last'[w].sent
             /\ handled'[w] = Append(handled[w], cur[w].call)
             /\ phase'[w] = "Running"
             /\ mailbox'[w] = mailbox[w]
             /\ (cur[w].kind = "Create" /\ last'[w].hook = "ok")
                  => /\ next_id[w] \in DOMAIN store'[w]
                     /\ next_id'[w] = next_id[w] + 1
                     /\ store'[w] = Insert(store[w], next_id[w],
                                           store'[w][next_id[w]])
             /\ (cur[w].kind = "Delete" /\ last'[w].hook = "ok")
                  => store'[w] = Remove(store[w], cur[w].id)
             /\ last'[w].hook \notin {"ok"} => store'[w] = store[w]]_vars

\* A Create whose caller was gone before the reply stored its entity, and
\* the Worker has taken the next request.
C20_Witness ==
    \E w \in sys :
        /\ last[w].kind = "Create"
        /\ last[w].hook = "ok"
        /\ ~last[w].sent
        /\ last[w].id \in DOMAIN store[w]
        /\ cur[w] # NoMsg

\* C22: the k-th Create a Worker handles is given Id k, whether it succeeds
\* or fails: the Ids handed out are 1, 2, 3, ... in this order, the counter
\* is one past the last of them, a successful Create returns its Id, and
\* the Id of a failed Create is never the key of a stored entity.
C22_KthCreateGetsIdK ==
    \A w \in sys :
        /\ \A k \in 1 .. Len(issued[w]) : issued[w][k] = k
        /\ next_id[w] = Len(issued[w]) + 1
        /\ inserted[w] \subseteq 1 .. Len(issued[w])
        /\ DOMAIN store[w] \subseteq inserted[w]
        /\ last[w].kind = "Create"
             => /\ last[w].id = Len(issued[w])
                /\ last[w].reply \in {Ok(Len(issued[w])), EntityError}
                /\ (last[w].reply = EntityError)
                     <=> (last[w].id \notin inserted[w])

\* The second Create succeeded with Id 2 after the first failed and left
\* Id 1 unused.
C22_Witness ==
    \E w \in sys :
        /\ last[w].kind = "Create"
        /\ last[w].reply.tag = "Ok"
        /\ last[w].reply.val = 2
        /\ inserted[w] = {2}

\* C21: a buffer never holds more requests than its capacity; a call that
\* finds it full fails nobody: the result of a caller changes only by a
\* reply it awaited; and a suspended send ends, and ends only, with its
\* request at the back of the buffer and its caller awaiting the reply.
C21_FullMailboxSuspends ==
    /\ [](\A w \in sys : Len(mailbox[w]) <= Capacity)
    /\ [][\A c \in Callers :
             /\ result'[c] # result[c]
                  => /\ waiting[c] # 0
                     /\ IsValue(slot[waiting[c]])
                     /\ result'[c] = slot[waiting[c]]
             /\ (sending[c] # NoMsg /\ sending'[c] # sending[c])
                  => /\ sending'[c] = NoMsg
                     /\ waiting'[c] = nCalls + 1
                     /\ mailbox'[sending[c].to]
                          = Append(mailbox[sending[c].to],
                                   [kind |-> sending[c].kind,
                                    id |-> sending[c].id,
                                    arg |-> sending[c].arg,
                                    call |-> nCalls + 1])]_vars
    /\ \A c \in Callers :
          (sending[c] # NoMsg) ~> (sending[c] = NoMsg /\ waiting[c] # 0)

\* A request went from a suspended send into the buffer, filling it again.
C21_Witness ==
    \E c \in Callers, w \in sys :
        /\ Len(mailbox[w]) = Capacity
        /\ waiting[c] # 0
        /\ mailbox[w][Capacity].call = waiting[c]
        /\ nCalls = Capacity + 1
        /\ taken[w] = 1

\* The request the responder takes next, and whether this step is a turn of
\* its loop.
MockNext == Head(mailbox["mock"])

MockTurn == taken'["mock"] # taken["mock"]

\* C23: when the entry at the front of the queue has the kind of the
\* request, the reply is exactly the entry's canned result, Ok or error,
\* the entry leaves the queue, the responder lives on, and the caller's
\* await returns that reply unchanged.
C23_MatchingEntryAnswers ==
    /\ [][(MockTurn /\ exps # <<>> /\ Head(exps).kind = MockNext.kind)
            => /\ slot'[MockNext.call] = Head(exps).response
               /\ exps' = Tail(exps)
               /\ phase'["mock"] = "Running"]_vars
    /\ [][\A c \in Callers :
             (waiting[c] # 0 /\ IsValue(slot[waiting[c]]))
                => \/ (waiting'[c] = waiting[c]
                         /\ slot'[waiting[c]] = slot[waiting[c]])
                   \/ (waiting'[c] = 0 /\ result'[c] = slot[waiting[c]])]_vars

\* An Action request met expect_action(..).return_err(..): the caller holds
\* the canned error and the entry is gone.
C23_Witness ==
    /\ taken["mock"] = 1
    /\ phase["mock"] = "Running"
    /\ last["mock"].kind = "Action"
    /\ last["mock"].entry.response = EntityError
    /\ exps = <<>>
    /\ \E c \in Callers : result[c] = EntityError

C25_VerifyPanicsIffQueued ==
    [][verdict' # verdict
         => /\ verdict' = (IF exps = <<>> THEN "ok" ELSE "panic")
            /\ exps' = exps]_vars

\* verify() returned normally after every scripted entry was consumed.
C25_Witness ==
    /\ verdict = "ok"
    /\ Len(scripted) = MaxExpect
    /\ exps = <<>>
    /\ taken["mock"] = MaxExpect
    /\ phase["mock"] = "Running"

\* C26: when the entry at the front has another kind than the request, the
\* responder panics and the caller's reply channel is dropped unanswered;
\* a caller whose channel was dropped gets ActorDropped, never a canned
\* result.
C26_MismatchPanics ==
    /\ [][(MockTurn /\ exps # <<>> /\ Head(exps).kind # MockNext.kind)
            => /\ phase'["mock"] = "Dropped"
               /\ slot'[MockNext.call] = TxDropped]_vars
    /\ [][\A c \in Callers :
             (waiting[c] # 0 /\ slot[waiting[c]] = TxDropped)
                => \/ (waiting'[c] = waiting[c]
                         /\ slot'[waiting[c]] = TxDropped)
                   \/ (waiting'[c] = 0 /\ result'[c] = ActorDropped)]_vars

\* A request met an entry of another kind, and its caller got ActorDropped.
C26_Witness ==
    /\ phase["mock"] = "Dropped"
    /\ last["mock"].entry # NoEntry
    /\ last["mock"].entry.kind # last["mock"].kind
    /\ \E c \in Callers : result[c] = ActorDropped

\* C27: once the responder has panicked, on a mismatch or on a request that
\* found the queue empty, the failing request is never answered with a
\* value, and a verify() called afterwards does not return normally.
C27_MockFailureIsFatal ==
    /\ [](phase["mock"] = "Dropped"
            => ~IsValue(slot[last["mock"].call]))
    /\ [][(phase["mock"] = "Dropped" /\ verdict' # verdict)
            => verdict' # "ok"]_vars

\* C28: an entry scripted for one Id answers a request of its kind for
\* another Id with its canned result, and the responder lives on.
C28_MatchByKindOnly ==
    [][(MockTurn /\ exps # <<>> /\ Head(exps).kind = MockNext.kind
          /\ Head(exps).id # MockNext.id)
         => /\ slot'[MockNext.call] = Head(exps).response
            /\ phase'["mock"] = "Running"]_vars

\* expect_get(1).return_ok(..) answered a Get of Id 2.
C28_Witness ==
    /\ taken["mock"] > 0
    /\ phase["mock"] = "Running"
    /\ last["mock"].kind = "Get"
    /\ last["mock"].entry.kind = "Get"
    /\ last["mock"].id # last["mock"].entry.id
    /\ \E c \in Callers : result[c] = Ok(1)

\* This step ends the Create the Order actor was handling.
OrderEnds == cur["order"] # NoMsg /\ cur'["order"] = NoMsg

\* C29: a Create leaves its Order in the store exactly when it replies Ok,
\* and then the User lookup had returned a present user and the reservation
\* had succeeded, taking the ordered quantity from the stock; otherwise the
\* reply is an error, the Order store is as before, and the Product store
\* is as the Create found it (unless the Product actor ended meanwhile).
C29_OrderStoredOnlyIfValidated ==
    [][OrderEnds =>
         LET l == last'["order"]
         IN  /\ (l.id \in DOMAIN store'["order"]) <=> (l.reply.tag = "Ok")
             /\ l.id \in DOMAIN store'["order"]
                  => /\ l.user.tag = "Ok"
                     /\ l.user.val.some
                     /\ l.reserve.tag = "Ok"
                     /\ \/ phase'["product"] = "Dropped"
                        \/ store'["product"][1].quantity
                             = l.stock0[1].quantity - l.quantity
             /\ l.id \notin DOMAIN store'["order"]
                  => /\ l.reply = EntityError
                     /\ store'["order"] = store["order"]
                     /\ \/ phase'["product"] = "Dropped"
                        \/ store'["product"] = l.stock0]_vars

\* After a first Order was stored, a second Create found the user but not
\* enough stock: it failed, stored nothing, and left the stock as it was.
C29_Witness ==
    /\ inserted["order"] = {1}
    /\ DOMAIN store["order"] = {1}
    /\ last["order"].id = 2
    /\ last["order"].hook = "err"
    /\ last["order"].user.tag = "Ok"
    /\ last["order"].reserve = EntityError
    /\ phase["product"] = "Running"
    /\ store["product"] = last["order"].stock0

Finishes(w) == Len(handled'[w]) = Len(handled[w]) + 1

C34_OnlyTargetEntityChanges ==
    [][\A w \in sys :
          Finishes(w) =>
            /\ \A j \in DOMAIN store[w] :
                  j # last'[w].id
                    => /\ j \in DOMAIN store'[w]
                       /\ store'[w][j] = store[w][j]
            /\ \A j \in DOMAIN store'[w] :
                  j # last'[w].id => j \in DOMAIN store[w]
            /\ last'[w].kind = "Create"
                 => last'[w].id \notin DOMAIN store[w]]_vars

\* With entities 1 and 2 stored, an Action on entity 2 ran its hook.
C34_Witness ==
    \E w \in sys :
        /\ DOMAIN store[w] = {1, 2}
        /\ last[w].kind = "Action"
        /\ last[w].id = 2
        /\ last[w].hook = "ok"
        /\ store[w][1] = StoredEntity

\* C35: no two callers await the same call; a send makes its caller, and
\* nobody else, await the call its request carries; the handling of a
\* request writes the reply it computed into the oneshot channel of that
\* request's call and touches no other channel; and a caller that stops
\* awaiting returns what was in the channel of its own call.
C35_ReplyGoesToItsCaller ==
    /\ [](\A c, d \in Callers :
            (c # d /\ waiting[c] # 0) => waiting[c] # waiting[d])
    /\ [][/\ nCalls' # nCalls
             => \E c \in Callers, w \in sys :
                  /\ waiting[c] = 0
                  /\ waiting'[c] = nCalls'
                  /\ mailbox'[w][Len(mailbox'[w])].call = nCalls'
                  /\ \A d \in Callers \ {c} : waiting'[d] = waiting[d]
          /\ \A w \in sys :
               Finishes(w) =>
                 /\ \A k \in CallIds \ {cur[w].call} : slot'[k] = slot[k]
                 /\ slot[cur[w].call] = Pending
                      => slot'[cur[w].call] = last'[w].reply
          /\ \A c \in Callers :
               (waiting[c] # 0 /\ waiting'[c] = 0
                  /\ IsValue(slot[waiting[c]]))
                 => result'[c] = slot[waiting[c]]]_vars

\* Two callers had calls in flight together, handled in the order sent,
\* and the first got an Id and the second an error.
C35_Witness ==
    \E c, d \in Callers :
        /\ c # d
        /\ result[c].tag = "Ok"
        /\ result[d].tag = "Err"
        /\ result[d].err = "NotFound"
        /\ nCalls = 2
        /\ Len(handled["res"]) = 2

\* C31: the User and Product tasks never end before the Order task has,
\* and once shutdown has dropped the three clients of the system all three
\* tasks end and shutdown returns Ok.
C31_ShutdownTerminates ==
    /\ [](\A w \in {"user", "product"} :
            phase[w] = "Stopped" => phase["order"] = "Stopped")
    /\ (holds[1] = {})
         ~> (/\ \A w \in sys : phase[w] = "Stopped"
             /\ "shutdown" \in DOMAIN result[1])

\* After an Order was created through the system, shutdown returned Ok with
\* the three tasks ended.
C31_Witness ==
    /\ "shutdown" \in DOMAIN result[1]
    /\ \A w \in sys : phase[w] = "Stopped"
    /\ inserted["order"] # {}

\* C37: with one more concurrent caller than the Order buffer has places,
\* each placing one order, the system comes to rest with no caller left
\* suspended in its send or awaiting its reply: every Create a caller
\* started came back with a Result, while the Order actor handled one Create
\* at a time and waited inside on_create for the User and Product actors.
C37_OrderCreatesReturn ==
    <>[](\A c \in Callers :
           /\ waiting[c] = 0
           /\ sending[c] = NoMsg
           /\ result[c].tag \in {"None", "Ok", "Err"})

\* The Order actor awaits the Product actor inside on_create while its own
\* buffer is full.
C37_Witness ==
    /\ OrderStage(cur["order"]) = "product"
    /\ Len(mailbox["order"]) = Capacity
    /\ \A c \in 1 .. (Capacity + 1) : waiting[c] # 0

\* C36: every request enqueued is taken from the buffer and answered, and
\* every call returns: the calls being finitely many, the system comes to
\* rest with the buffer empty, nothing in handling, every request enqueued
\* handled, and no caller awaiting.
C36_EveryCallReturns ==
    <>[](/\ \A w \in sys :
              /\ mailbox[w] = <<>>
              /\ cur[w] = NoMsg
              /\ Len(handled[w]) = nCalls
         /\ \A c \in Callers :
              /\ waiting[c] = 0
              /\ result[c].tag \in {"None", "Ok", "Err"})

\* Two calls were enqueued before the Worker ran, then handled and
\* answered, and both callers have their Result.
C36_Witness ==
    /\ nCalls = 2
    /\ Len(handled["res"]) = 2
    /\ \E c, d \in Callers :
          /\ c # d
          /\ waiting[c] = 0 /\ result[c].tag \in {"Ok", "Err"}
          /\ waiting[d] = 0 /\ result[d].tag \in {"Ok", "Err"}

\* C39: a turn of the responder on a request that finds no entry, or one
\* of another kind, ends the responder and drops the reply channel of that
\* request; from then on the responder stays ended, takes no request and
\* pops no entry; a call made then returns ActorClosed without being
\* enqueued, and a caller whose reply channel was dropped gets ActorDropped.
C39_MockStopsForGood ==
    /\ [][(MockTurn /\ ~(exps # <<>> /\ Head(exps).kind = MockNext.kind))
            => /\ phase'["mock"] = "Dropped"
               /\ slot'[MockNext.call] = TxDropped
               /\ mailbox'["mock"] = <<>>]_vars
    /\ [][phase["mock"] = "Dropped"
            => /\ phase'["mock"] = "Dropped"
               /\ taken'["mock"] = taken["mock"]
               /\ mailbox'["mock"] = <<>>
               /\ Len(exps') >= Len(exps)
               /\ SubSeq(exps', 1, Len(exps)) = exps
               /\ \A c \in Callers :
                    /\ waiting[c] = 0
                         => /\ waiting'[c] = 0
                            /\ result'[c] \in {result[c], ActorClosed}
                    /\ (waiting[c] # 0 /\ waiting'[c] = 0
                          /\ slot[waiting[c]] = TxDropped)
                         => result'[c] = ActorDropped]_vars

\* After a mismatch the first caller got ActorDropped, a later call got
\* ActorClosed, and the entry behind the popped one is still queued.
C39_Witness ==
    /\ phase["mock"] = "Dropped"
    /\ last["mock"].entry # NoEntry
    /\ exps # <<>>
    /\ \E c, d \in Callers :
          /\ result[c] = ActorDropped
          /\ result[d] = ActorClosed

\* C38: on a Product that gets only CheckStock and ReserveStock Actions
\* (and Gets), the quantity is never negative and, added to the amounts of
\* the ReserveStock Actions answered with Ok, gives the initial quantity; a
\* ReserveStock(n) is answered with Ok exactly when n is at most the
\* quantity and then takes n, a failed one takes nothing, and a CheckStock
\* reports the quantity and leaves it alone.
C38_StockConserved ==
    /\ [](/\ store["product"][1].quantity >= 0
          /\ StockProduct.quantity = store["product"][1].quantity + reserved)
    /\ [][(cur["product"].kind = "Action" /\ cur'["product"] = NoMsg)
            => LET q == store["product"][1].quantity
                   after == store'["product"][1].quantity
                   a == cur["product"].arg
                   rep == last'["product"].reply
               IN  IF a.op = "CheckStock"
                     THEN /\ after = q
                          /\ rep = Ok([op |-> "CheckStock", level |-> q])
                          /\ reserved' = reserved
                     ELSE /\ (rep.tag = "Ok") <=> (a.n <= q)
                          /\ rep.tag = "Ok"
                               => after = q - a.n /\ reserved' = reserved + a.n
                          /\ rep.tag # "Ok"
                               => after = q /\ reserved' = reserved]_vars

\* A reservation of more than is left failed after an earlier one had taken
\* part of the stock.
C38_Witness ==
    /\ reserved \in 1 .. (NumReservers - 1)
    /\ last["product"].reply = EntityError
    /\ store["product"][1].quantity = NumReservers - reserved

\* C40: a helper that takes a request always removes it from the buffer;
\* it returns the request with its reply slot when the kind is the helper's
\* and keeps the slot open, and returns None otherwise, the request gone and
\* its reply slot dropped.  A dropped reply slot is never filled later, no
\* request of its call is buffered or held again, and the caller waiting on
\* it gets ActorDropped, which the ProductClient wraps.
C40_HelperConsumesNext ==
    /\ [][taken'["mock"] = taken["mock"] + 1
            => LET msg == Head(mailbox["mock"])
               IN  /\ mailbox'["mock"] = Tail(mailbox["mock"])
                   /\ last'["mock"].call = msg.call
                   /\ IF msg.kind = last'["mock"].kind
                        THEN /\ last'["mock"].returned = Some(msg)
                             /\ cur'["mock"] = msg
                             /\ slot'[msg.call] = Pending
                        ELSE /\ last'["mock"].returned = None
                             /\ cur'["mock"] = NoMsg
                             /\ slot'[msg.call] = TxDropped]_vars
    /\ [][\A k \in CallIds :
            slot[k] = TxDropped
            => /\ slot'[k] \in {TxDropped, Free}
               /\ cur'["mock"] = NoMsg \/ cur'["mock"].call # k
               /\ \A i \in 1 .. Len(mailbox'["mock"]) :
                     mailbox'["mock"][i].call # k]_vars
    /\ [][\A c \in Callers :
            (/\ waiting[c] # 0
             /\ slot[waiting[c]] = TxDropped
             /\ waiting'[c] = 0)
            => result'[c] = ActorCommunicationError(ActorDropped)]_vars

\* The only request sent was taken by a helper of another kind, which
\* returned None; the test still holds the receiver, and the caller has
\* been told ActorDropped.
C40_Witness ==
    /\ nCalls = 1
    /\ phase["mock"] = "Running"
    /\ last["mock"].kind # "None"
    /\ last["mock"].call = 1
    /\ last["mock"].returned = None
    /\ slot[1] = Free
    /\ \E c \in Callers : result[c] = ActorCommunicationError(ActorDropped)

\* C32: check_stock returns the level of a CheckStock reply and
\* reserve_stock returns Ok(()) on a ReserveStock reply; an Err reply of the
\* backend, a dropped reply slot and a closed channel are each returned as
\* ActorCommunicationError with the text of the FrameworkError, never as Ok.
C32_ProductClientResults ==
    /\ [][\A c \in Callers :
            (method[c] # "none" /\ method'[c] = "none")
            => LET s == slot[waiting[c]]
               IN  /\ (/\ method[c] = "check_stock"
                       /\ s.tag = "Ok"
                       /\ s.val.op = "CheckStock")
                        => result'[c] = Ok(s.val.level)
                   /\ (/\ method[c] = "reserve_stock"
                       /\ s.tag = "Ok"
                       /\ s.val.op = "ReserveStock")
                        => result'[c] = Ok(Unit)
                   /\ s.tag = "Err"
                        => result'[c] = [tag |-> "Err",
                                         err |-> "ActorCommunicationError",
                                         msg |-> ErrorToString(s)]
                   /\ s.tag = "TxDropped"
                        => result'[c] = ActorCommunicationError(ActorDropped)
                   /\ s.tag # "Ok" => result'[c].tag = "Err"]_vars
    /\ [][\A c \in Callers :
            (~ReceiverAlive("mock") /\ waiting[c] = 0)
            => /\ waiting'[c] = 0
               /\ result'[c].tag = "Ok" => result[c].tag = "Ok"
               /\ result'[c].tag = "Err"
                    => result'[c] \in {result[c],
                                       ActorCommunicationError(ActorClosed)}]_vars
    /\ [](\A c \in Callers :
            result[c].tag = "Err" => result[c].err = "ActorCommunicationError")

\* The one request enqueued was an Action the test answered and its method
\* returned Ok; a later call of another task found the channel closed.
C32_Witness ==
    /\ nCalls = 1
    /\ handled["mock"] = <<1>>
    /\ last["mock"].kind = "Action"
    /\ \E c, d \in Callers :
          /\ result[d].tag = "Ok"
          /\ result[c] = ActorCommunicationError(ActorClosed)

====
